---------------------------- MODULE Spec2Model ----------------------------
(***************************************************************************)
(* A model of serdes (src/index.js): the ValueSerializer and               *)
(* ValueDeserializer of the structured clone wire format, version 13, the  *)
(* Node binding classes around them and the default host object codec.     *)
(*                                                                         *)
(* Bytes are the integers 0..255.  JavaScript numbers that are integers    *)
(* are kept as sign and magnitude, the magnitude as four 16-bit limbs      *)
(* (least significant first), because zigzag values and the halves of a    *)
(* 64-bit integer do not fit the 32-bit integers of the model checker.     *)
(* Every other number is the eight bytes of its IEEE-754 representation.   *)
(***************************************************************************)
EXTENDS Integers, Sequences, FiniteSets, TLC

(***************************************************************************)
(* Bounds of the model.                                                    *)
(***************************************************************************)
\* writeValue and primitive write calls on one encoder (the header excluded)
MaxWrites == 2
\* reads a decoder makes beyond the operations the encoder logged
ExtraReads == 1
\* transfer ids a caller may choose: 1..MaxTransferId
MaxTransferId == 1
\* the offset of a decoder's input in its storage: 0..MaxByteOffset
MaxByteOffset == 1

(***************************************************************************)
(* SerializationTag, src/index.js 37-123, and ArrayBufferViewTag, 125-136. *)
(***************************************************************************)
kLatestVersion == 13

kVersion == 255
kPadding == 0
kVerifyObjectCount == 63
kTheHole == 45
kUndefined == 95
kNull == 48
kTrue == 84
kFalse == 70
kInt32 == 73
kUint32 == 85
kDouble == 78
kUtf8String == 83
kOneByteString == 34
kTwoByteString == 99
kObjectReference == 94
kBeginJSObject == 111
kEndJSObject == 123
kBeginSparseJSArray == 97
kEndSparseJSArray == 64
kBeginDenseJSArray == 65
kEndDenseJSArray == 36
kDate == 68
kTrueObject == 121
kFalseObject == 120
kNumberObject == 110
kStringObject == 115
kRegExp == 82
kBeginJSMap == 59
kEndJSMap == 58
kBeginJSSet == 39
kEndJSSet == 44
kArrayBuffer == 66
kArrayBufferTransfer == 116
kArrayBufferView == 86
kSharedArrayBuffer == 117
kWasmModule == 87
kWasmModuleTransfer == 119
kHostObject == 92

\* ArrayBufferViewTypes in table order; Buffer is pushed last (line 1070).
ArrayBufferViewTypes ==
  << "Int8Array", "Uint8Array", "Uint8ClampedArray", "Int16Array",
     "Uint16Array", "Int32Array", "Uint32Array", "Float32Array",
     "Float64Array", "DataView", "Buffer" >>

\* ArrayBufferViewTag: the subtag of each view constructor.
ArrayBufferViewTag ==
  [ Int8Array |-> 98, Uint8Array |-> 66, Uint8ClampedArray |-> 67,
    Int16Array |-> 119, Uint16Array |-> 87, Int32Array |-> 100,
    Uint32Array |-> 68, Float32Array |-> 102, Float64Array |-> 70,
    DataView |-> 63 ]

\* Constructor.BYTES_PER_ELEMENT; 0 stands for undefined (DataView).
BYTES_PER_ELEMENT ==
  [ Int8Array |-> 1, Uint8Array |-> 1, Uint8ClampedArray |-> 1,
    Int16Array |-> 2, Uint16Array |-> 2, Int32Array |-> 4,
    Uint32Array |-> 4, Float32Array |-> 4, Float64Array |-> 8,
    DataView |-> 0, Buffer |-> 1 ]

\* The value of a property that does not exist: undefined.
Undefined == 0 - 1

\* x & m for a byte or undefined x and a mask m of the form 2^k*(2^j-1).
\* ToInt32(undefined) is 0.
BitAnd(x, lowbit, width) ==
  IF x = Undefined THEN 0 ELSE ((x \div lowbit) % width) * lowbit

(***************************************************************************)
(* Unsigned integers below 2^64 as four 16-bit limbs.                      *)
(***************************************************************************)
Limb == 256 * 256

U(n) == << n % Limb, n \div Limb, 0, 0 >>

U32(hi16, lo16) == << lo16, hi16, 0, 0 >>

IsZeroU(x) == x = << 0, 0, 0, 0 >>

Shr1(x) ==
  << (x[1] \div 2) + (x[2] % 2) * 32768,
     (x[2] \div 2) + (x[3] % 2) * 32768,
     (x[3] \div 2) + (x[4] % 2) * 32768,
     x[4] \div 2 >>

Shl1(x) ==
  << (x[1] * 2) % Limb,
     ((x[2] * 2) % Limb) + (x[1] \div 32768),
     ((x[3] * 2) % Limb) + (x[2] \div 32768),
     ((x[4] * 2) % Limb) + (x[3] \div 32768) >>

Shr7(x) ==
  << (x[1] \div 128) + (x[2] % 128) * 512,
     (x[2] \div 128) + (x[3] % 128) * 512,
     (x[3] \div 128) + (x[4] % 128) * 512,
     x[4] \div 128 >>

Shl7(x) ==
  << (x[1] * 128) % Limb,
     ((x[2] * 128) % Limb) + (x[1] \div 512),
     ((x[3] * 128) % Limb) + (x[2] \div 512),
     ((x[4] * 128) % Limb) + (x[3] \div 512) >>

AddU(x, y) ==
  LET s1 == x[1] + y[1]
      s2 == x[2] + y[2] + (s1 \div Limb)
      s3 == x[3] + y[3] + (s2 \div Limb)
      s4 == x[4] + y[4] + (s3 \div Limb)
  IN  << s1 % Limb, s2 % Limb, s3 % Limb, s4 % Limb >>

LessU(x, y) ==
  \/ x[4] < y[4]
  \/ x[4] = y[4] /\ x[3] < y[3]
  \/ x[4] = y[4] /\ x[3] = y[3] /\ x[2] < y[2]
  \/ x[4] = y[4] /\ x[3] = y[3] /\ x[2] = y[2] /\ x[1] < y[1]

\* 2^k for k in 0..16.
Pow2(k) ==
  << 1, 2, 4, 8, 16, 32, 64, 128, 256, 512, 1024, 2048, 4096, 8192, 16384,
     32768, 65536 >>[k + 1]

\* Limb i (1..4) of x, zero outside.
LimbAt(x, i) == IF i >= 1 /\ i <= 4 THEN x[i] ELSE 0

\* floor(x / 2^k), for k in 0..63.
ShrN(x, k) ==
  LET q == k \div 16
      r == k % 16
  IN  [ i \in 1..4 |->
          (LimbAt(x, i + q) \div Pow2(r))
            + (LimbAt(x, i + q + 1) % Pow2(r)) * Pow2(16 - r) ]

\* (x * 2^k) mod 2^64, for k in 0..63.
ShlN(x, k) ==
  LET q == k \div 16
      r == k % 16
  IN  [ i \in 1..4 |->
          ((LimbAt(x, i - q) * Pow2(r)) % Limb)
            + (LimbAt(x, i - q - 1) \div Pow2(16 - r)) ]

\* The number of bits of x: 0 for 0, else 1 + floor(log2 x).
BitLen(x) ==
  IF IsZeroU(x) THEN 0
  ELSE LET i == CHOOSE j \in 1..4 :
                  x[j] # 0 /\ \A m \in (j + 1)..4 : x[m] = 0
           b == CHOOSE c \in 1..16 : Pow2(c - 1) <= x[i] /\ x[i] < Pow2(c)
       IN  16 * (i - 1) + b

Two31 == U32(32768, 0)
Two32 == << 0, 0, 1, 0 >>

\* (v | 0) === v for a non-negative integer v: v < 2^31.
FitsInt31(x) == LessU(x, Two31)

\* v >>> 0 === v for a non-negative integer v: v < 2^32.
FitsUint32(x) == LessU(x, Two32)

\* The low 32 bits (ToUint32).
ToUint32(x) == << x[1], x[2], 0, 0 >>

(***************************************************************************)
(* JavaScript numbers.                                                     *)
(***************************************************************************)
Num(neg, mag) == [t |-> "num", neg |-> neg, mag |-> mag]

I(n) == IF n < 0 THEN Num(TRUE, U(0 - n)) ELSE Num(FALSE, U(n))

Dbl(bytes) == [t |-> "dbl", bytes |-> bytes]

IsNumber(v) == v.t \in {"num", "dbl"}

\* ~~object === object (line 271): an integer in the signed 32-bit range.
\* Negative zero is not among the numbers of the model.
IsInt32(v) ==
  /\ v.t = "num"
  /\ IF v.neg THEN ~ LessU(Two31, v.mag) ELSE LessU(v.mag, Two31)

\* The eight little-endian bytes of a 64-bit word.
WordBytes(w) ==
  << w[1] % 256, w[1] \div 256, w[2] % 256, w[2] \div 256,
     w[3] % 256, w[3] \div 256, w[4] % 256, w[4] \div 256 >>

BytesWord(b) ==
  << b[1] + 256 * b[2], b[3] + 256 * b[4],
     b[5] + 256 * b[6], b[7] + 256 * b[8] >>

\* IEEE-754 binary64 of an integer of magnitude below 2^53, as Float64Array
\* stores it on a little-endian host (WriteDouble, line 217).
Float64Bytes(v) ==
  IF v.t = "dbl" THEN v.bytes
  ELSE IF IsZeroU(v.mag) THEN << 0, 0, 0, 0, 0, 0, 0, 0 >>
  ELSE LET e == BitLen(v.mag) - 1
           n == ShlN(v.mag, 52 - e)
           top == (IF v.neg THEN 32768 ELSE 0) + (1023 + e) * 16
                    + (n[4] - 16)
       IN  WordBytes(<< n[1], n[2], n[3], top >>)

\* The low k bits of x are all zero.
LowBitsZero(x, k) == ShlN(ShrN(x, k), k) = x

\* readDoubleLE: the number eight bytes stand for.  An integer of magnitude
\* below 2^53 becomes that integer, every other pattern stays as its bytes.
Float64Value(b) ==
  LET w == BytesWord(b)
      neg == w[4] >= 32768
      ex == (w[4] % 32768) \div 16
      sig == << w[1], w[2], w[3], 16 + (w[4] % 16) >>
  IN  IF b = << 0, 0, 0, 0, 0, 0, 0, 0 >> THEN Num(FALSE, U(0))
      ELSE IF ex >= 1023 /\ ex <= 1075 /\ LowBitsZero(sig, 1075 - ex)
           THEN Num(neg, ShrN(sig, 1075 - ex))
           ELSE Dbl(b)

(***************************************************************************)
(* Values.  A primitive is a record tagged by its type; a composite is a   *)
(* reference to an object of the heap.  A string is the sequence of its    *)
(* UTF-16 code units.                                                      *)
(***************************************************************************)
Undef == [t |-> "undefined"]
Null == [t |-> "null"]
Bool(b) == [t |-> "bool", b |-> b]
Str(units) == [t |-> "str", s |-> units]
Ref(a) == [t |-> "ref", a |-> a]
\* a missing index of an array
Hole == [t |-> "hole"]

NoErr == [kind |-> "none", message |-> ""]
Err(kind, message) == [kind |-> kind, message |-> message]

kDataCloneError == << "Error: ", "__object__", " could not be cloned" >>
kDataCloneDeserializationVersionError ==
  "Unable to deserialize cloned data due to invalid or unsupported version."
kDataCloneDeserializationError == "Unable to deserialize cloned data."

\* template.replace(/__object__/g, text)
RECURSIVE ReplaceObject(_, _)
ReplaceObject(template, text) ==
  IF template = << >> THEN ""
  ELSE (IF Head(template) = "__object__" THEN text ELSE Head(template))
         \o ReplaceObject(Tail(template), text)

\* The decimal digits of a non-negative integer, as code units.
RECURSIVE DecimalString(_)
DecimalString(n) ==
  IF n < 10 THEN << 48 + n >>
  ELSE Append(DecimalString(n \div 10), 48 + (n % 10))

\* Buffer.from(chars, 'latin1'): the low byte of every code unit.
Latin1Bytes(chars) == [ i \in 1..Len(chars) |-> chars[i] % 256 ]

\* Buffer.from(chars, 'utf16le'): low byte, then high byte.
Utf16leBytes(chars) ==
  [ i \in 1..(2 * Len(chars)) |->
      IF i % 2 = 1 THEN chars[(i + 1) \div 2] % 256
      ELSE chars[i \div 2] \div 256 ]

\* Buffer.byteLength(string, 'latin1'): one byte for every code unit.
ByteLengthLatin1(string) == Len(string)

\* Buffer.byteLength(string, 'utf16le')
ByteLengthUtf16le(string) == 2 * Len(string)

(***************************************************************************)
(* Objects.                                                                *)
(***************************************************************************)
\* a plain record; props is the sequence of << key, value >> in key order
Obj(props) == [kind |-> "Object", props |-> props]
\* an array; elems[i] is element i-1 or Hole, props the non-index properties
Arr(elems, props) == [kind |-> "Array", elems |-> elems, props |-> props]
Date(time) == [kind |-> "Date", time |-> time]
\* flags is the set of flag properties that are true
RegExp(source, flags) == [kind |-> "RegExp", source |-> source, flags |-> flags]
MapObj(entries) == [kind |-> "Map", entries |-> entries]
SetObj(entries) == [kind |-> "Set", entries |-> entries]
BooleanObj(b) == [kind |-> "Boolean", value |-> b]
NumberObj(n) == [kind |-> "Number", value |-> n]
StringObj(units) == [kind |-> "String", value |-> units]
ArrayBuffer(bytes) == [kind |-> "ArrayBuffer", bytes |-> bytes]
\* a typed view, a DataView or a Buffer over the byte buffer at address buffer
View(ctor, buffer, byteOffset, byteLength) ==
  [kind |-> "View", ctor |-> ctor, buffer |-> buffer,
   byteOffset |-> byteOffset, byteLength |-> byteLength]
\* a callable; text is String(f)
Function(text) == [kind |-> "Function", text |-> text]
\* an object of the host (a handle); tag is Object.prototype.toString of it
\* and payload what the test's host object hooks write and expect for it
Host(tag, payload) == [kind |-> "Host", tag |-> tag, payload |-> payload]

\* Code units of the strings of the model.
sFoo == << 102, 111, 111 >>
sBar == << 98, 97, 114 >>
sVal == << 118, 97, 108 >>
sSelf == << 115, 101, 108, 102 >>
sAbc == << 97, 98, 99 >>
sAou == << 97, 111, 117 >>
sAouUmlaut == << 228, 246, 252 >>
sParty == << 55356, 57225 >>
sStdin == << 115, 116, 100, 105, 110 >>

MinusQuarter == Dbl(<< 0, 0, 0, 0, 0, 0, 208, 191 >>)

\* The name, the 64-bit pairs << hi, lo >> and the double that the host object
\* hooks of the test write and expect (test.js 98-108 and 116-126).
StdinPayload ==
  [ name |-> sStdin,
    pairs |-> << << I(1), I(2) >>, << I(1), I(0) >>, << I(0), I(0) >>,
                 << I(258), I(772) >>,
                 << Num(FALSE, U32(32768, 0)), Num(FALSE, U32(28672, 0)) >> >>,
    dbl |-> MinusQuarter ]

\* The objects the caller holds.  Address a is Heap[a].
Heap ==
  << Obj(<< << sFoo, Str(sBar) >> >>),
     Obj(<< << sSelf, Ref(2) >> >>),
     Arr(<< I(1), I(2), I(3) >>, << >>),
     Arr(<< Hole, Hole, Hole, Hole >>, << >>),
     Date(I(86400000)),
     RegExp(sAbc, {"global"}),
     MapObj(<< << I(1), I(2) >> >>),
     SetObj(<< I(1), I(2) >>),
     BooleanObj(TRUE),
     NumberObj(I(0 - 1)),
     StringObj(sAbc),
     ArrayBuffer(<< 1, 2, 3, 4 >>),
     View("Buffer", 12, 0, 4),
     View("Uint16Array", 15, 0, 4),
     ArrayBuffer(<< 173, 222, 239, 190 >>),
     Function("function f() {}"),
     Host("[object TTY]", StdinPayload),
     Obj(<< << sVal, Ref(17) >> >>),
     Obj(<< << << 97 >>, Ref(1) >>, << << 98 >>, Ref(1) >> >>),
     Obj(<< << << 102 >>, Ref(16) >> >>),
     View("Uint8Array", 12, 1, 2),
     Obj(<< << sFoo, Ref(22) >> >>),
     Arr(<< Ref(23) >>, << >>),
     MapObj(<< << I(1), Ref(24) >> >>),
     SetObj(<< Ref(25) >>),
     Arr(<< I(1), Hole >>, << << << 120 >>, I(2) >> >>) >>

Addrs == 1..Len(Heap)

\* Addresses the decoder allocates start after the caller's.
DecBase == Len(Heap)

\* Object.prototype.toString.call(object)
ClassTag(obj) ==
  IF obj.kind = "View"
    THEN "[object " \o (IF obj.ctor = "Buffer" THEN "Uint8Array" ELSE obj.ctor)
           \o "]"
  ELSE IF obj.kind = "Host" THEN obj.tag
  ELSE "[object " \o obj.kind \o "]"

\* String(object), for the objects that reach an error message.
StringOf(obj) ==
  IF obj.kind = "Function" THEN obj.text ELSE ClassTag(obj)

\* ArrayBufferViewTags (146-148): class tag -> constructor name, or Undefined.
ArrayBufferViewTagsGet(tag) ==
  IF \E i \in 1..10 : tag = "[object " \o ArrayBufferViewTypes[i] \o "]"
    THEN ArrayBufferViewTypes[
           CHOOSE i \in 1..10 : tag = "[object " \o ArrayBufferViewTypes[i] \o "]"]
    ELSE "undefined"

\* ArrayBufferViewTags[name] (line 452): a property read on the Map object,
\* which has no property named after a constructor.
ArrayBufferViewTagsProperty(name) == Undefined

\* arrayBufferViewTypeToIndex.get(tag) (1060-1068), or Undefined.
arrayBufferViewTypeToIndex(tag) ==
  IF \E i \in 1..10 : tag = "[object " \o ArrayBufferViewTypes[i] \o "]"
    THEN (CHOOSE i \in 1..10 :
            tag = "[object " \o ArrayBufferViewTypes[i] \o "]") - 1
    ELSE Undefined

bufferConstructorIndex == Len(ArrayBufferViewTypes) - 1

\* RegexpFlagsAsInteger (154-160)
RegexpFlagsAsInteger(flags) ==
  (IF "global" \in flags THEN 1 ELSE 0)
    + (IF "ignoreCase" \in flags THEN 2 ELSE 0)
    + (IF "multiline" \in flags THEN 4 ELSE 0)
    + (IF "sticky" \in flags THEN 8 ELSE 0)
    + (IF "unicode" \in flags THEN 16 ELSE 0)

\* RegexpFlagsFromInteger (162-170), as the set of flags of the new RegExp.
RegexpFlagsFromInteger(v) ==
  (IF (v \div 1) % 2 = 1 THEN {"global"} ELSE {})
    \cup (IF (v \div 2) % 2 = 1 THEN {"ignoreCase"} ELSE {})
    \cup (IF (v \div 4) % 2 = 1 THEN {"multiline"} ELSE {})
    \cup (IF (v \div 8) % 2 = 1 THEN {"sticky"} ELSE {})
    \cup (IF (v \div 16) % 2 = 1 THEN {"unicode"} ELSE {})

\* Object.keys(object) with the values: index properties first, then the rest.
RECURSIVE IndexProps(_, _)
IndexProps(elems, i) ==
  IF i > Len(elems) THEN << >>
  ELSE (IF elems[i] = Hole THEN << >>
        ELSE << << DecimalString(i - 1), elems[i] >> >>)
         \o IndexProps(elems, i + 1)

OwnProps(obj) ==
  IF obj.kind = "Array" THEN IndexProps(obj.elems, 1) \o obj.props
  ELSE IF obj.kind = "Object" THEN obj.props
  ELSE << >>

(***************************************************************************)
(* Maps keyed by JavaScript values, as sequences of << key, value >>.      *)
(***************************************************************************)
MapHas(m, key) == \E i \in 1..Len(m) : m[i][1] = key

\* map.get(key); the caller decides what a missing key yields
MapGet(m, key) == m[CHOOSE i \in 1..Len(m) : m[i][1] = key][2]

MapSet(m, key, value) ==
  IF MapHas(m, key)
    THEN [ i \in 1..Len(m) |-> IF m[i][1] = key THEN << key, value >> ELSE m[i] ]
    ELSE Append(m, << key, value >>)

(***************************************************************************)
(* ValueSerializer (172-482) with its delegate, a NodeBindingSerializer    *)
(* (939-1000) or a DefaultSerializer (1072-1097).  cls names the delegate: *)
(*   "Default"    new DefaultSerializer()                                  *)
(*   "Node"       new Serializer()                                         *)
(*   "CustomErr"  DefaultSerializer, _getDataCloneError returns            *)
(*                Error('foobar') (test.js 81-85)                          *)
(*   "Hook"       DefaultSerializer, _writeHostObject writes the payload   *)
(*                of the handle (test.js 95-109)                           *)
(*   "Throw"      DefaultSerializer, _writeHostObject throws               *)
(*                Error('foobar') (test.js 136-139)                        *)
(* A thrown exception is kept in err and ends every operation after it.    *)
(***************************************************************************)
SerializerClasses == {"Default", "Node", "CustomErr", "Hook", "Throw"}

\* constructor (173-181, 940-944, 1073-1077)
NewSerializer(cls) ==
  [ cls |-> cls,
    id_map_ |-> << >>,
    next_id_ |-> 0,
    array_buffer_transfer_map_ |-> << >>,
    treat_array_buffer_views_as_host_objects_ |-> (cls # "Node"),
    written_bytes_ |-> 0,
    kBufferList |-> << >>,
    err |-> NoErr,
    cloneErrorCalls |-> << >>,
    hostObjectCalls |-> 0 ]

Ok(s) == s.err.kind = "none"

Throw(s, kind, message) == [s EXCEPT !.err = Err(kind, message)]

\* WriteRawBytes (230-236) and kPush (978-980)
WriteRawBytes(s, buffer) ==
  IF ~ Ok(s) THEN s
  ELSE [s EXCEPT !.written_bytes_ = @ + Len(buffer),
                 !.kBufferList = @ \o buffer]

\* WriteTag (192-194)
WriteTag(s, tag) == WriteRawBytes(s, << tag >>)

\* v >>= 7, taken when (v | 0) === v
SignedShift7(v) == Shr7(v)

\* Math.floor(v / 128)
FloorDiv128(v) == Shr7(v)

\* the do-while loop of WriteVarint (200-208)
RECURSIVE VarintBytes(_)
VarintBytes(v) ==
  LET byte == (v[1] % 128) + 128
      next == IF FitsInt31(v) THEN SignedShift7(v) ELSE FloorDiv128(v)
  IN  IF IsZeroU(next) THEN << byte - 128 >>
      ELSE << byte >> \o VarintBytes(next)

\* WriteVarint (196-210); v is a JavaScript value
WriteVarint(s, v) ==
  IF ~ Ok(s) THEN s
  ELSE IF ~ (v.t = "num" /\ ~ v.neg) THEN Throw(s, "AssertionError", "")
  ELSE WriteRawBytes(s, VarintBytes(v.mag))

\* WriteZigZag (212-214): 2 * Math.abs(value) + (value < 0)
ZigZag(value) ==
  Num(FALSE, AddU(AddU(value.mag, value.mag),
                  U(IF value.neg /\ ~ IsZeroU(value.mag) THEN 1 ELSE 0)))

WriteZigZag(s, value) == WriteVarint(s, ZigZag(value))

\* WriteDouble (216-218)
WriteDouble(s, value) == WriteRawBytes(s, Float64Bytes(value))

\* WriteOneByteString (220-223)
WriteOneByteString(s, chars) ==
  WriteRawBytes(WriteVarint(s, I(Len(chars))), Latin1Bytes(chars))

\* WriteTwoByteString (225-228)
WriteTwoByteString(s, chars) ==
  WriteRawBytes(WriteVarint(s, I(Len(chars) * 2)), Utf16leBytes(chars))

\* value >>> 0 === value
IsUint32(v) == v.t = "num" /\ ~ v.neg /\ FitsUint32(v.mag)

\* WriteUint32 (238-241)
WriteUint32(s, value) ==
  IF ~ Ok(s) THEN s
  ELSE IF ~ IsUint32(value) THEN Throw(s, "AssertionError", "")
  ELSE WriteVarint(s, value)

\* a | b for a and b in 0..127
RECURSIVE BitOr(_, _)
BitOr(a, b) ==
  IF a = 0 THEN b
  ELSE IF b = 0 THEN a
  ELSE (IF a % 2 = 1 \/ b % 2 = 1 THEN 1 ELSE 0)
         + 2 * BitOr(a \div 2, b \div 2)

\* the while loop of WriteUint64 (256-260): seven bits of hi for every byte
RECURSIVE Uint64HighBytes(_)
Uint64HighBytes(hi) ==
  IF IsZeroU(hi) THEN << >>
  ELSE << (hi[1] % 128) + 128 >> \o Uint64HighBytes(Shr7(hi))

\* stack_buffer[index-1] &= 0x7f
ClearLastHighBit(bytes) ==
  [ i \in 1..Len(bytes) |-> IF i = Len(bytes) THEN bytes[i] % 128 ELSE bytes[i] ]

\* the bytes WriteUint64 puts in stack_buffer when hi is not 0 (248-262)
Uint64Bytes(hi, lo) ==
  ClearLastHighBit(
    << (ShrN(lo, 0)[1] % 128) + 128,
       (ShrN(lo, 7)[1] % 128) + 128,
       (ShrN(lo, 14)[1] % 128) + 128,
       (ShrN(lo, 21)[1] % 128) + 128,
       BitOr(ShrN(lo, 28)[1] % 128, ShlN(ToUint32(hi), 4)[1] % 128) + 128 >>
    \o Uint64HighBytes(ShrN(hi, 3)))

\* WriteUint64 (243-263)
WriteUint64(s, hi, lo) ==
  IF ~ Ok(s) THEN s
  ELSE IF ~ IsUint32(hi) \/ ~ IsUint32(lo) THEN Throw(s, "AssertionError", "")
  ELSE IF IsZeroU(hi.mag) THEN WriteUint32(s, lo)
  ELSE WriteRawBytes(s, Uint64Bytes(hi.mag, lo.mag))

\* TransferArrayBuffer (265-268); the assertion is the caller's duty
SerializerTransferArrayBuffer(s, transfer_id, array_buffer) ==
  [s EXCEPT !.array_buffer_transfer_map_ =
              MapSet(@, Ref(array_buffer), I(transfer_id))]

\* _getDataCloneError (986-988), or the test's replacement of it: the error
\* object it returns.  Every call is recorded with its message.
GetDataCloneError(s, message) ==
  IF s.cls = "CustomErr" THEN Err("Error", "foobar") ELSE Err("Error", message)

\* throw this._getDataCloneError(message)
ThrowViaGetDataCloneError(s, message) ==
  [s EXCEPT !.err = GetDataCloneError(s, message),
            !.cloneErrorCalls = Append(@, message)]

\* ThrowDataCloneError (474-481) and kThrowDataCloneError (990-992); the
\* delegate is never null behind a NodeBindingSerializer
ThrowDataCloneError(s, template, obj) ==
  IF ~ Ok(s) THEN s
  ELSE ThrowViaGetDataCloneError(s, ReplaceObject(template, StringOf(obj)))

\* WriteString (299-312).  this.BytesNeededForVarint is not a method of the
\* class: calling it throws a TypeError.
WriteString(s, string) ==
  IF ~ Ok(s) THEN s
  ELSE IF ByteLengthLatin1(string) = Len(string)
    THEN WriteOneByteString(WriteTag(s, kOneByteString), string)
    ELSE Throw(s, "TypeError", "this.BytesNeededForVarint is not a function")

\* WriteInt32 (294-297)
WriteInt32(s, object) == WriteZigZag(WriteTag(s, kInt32), object)

\* the bytes of a view: abView.buffer from byteOffset, byteLength bytes
ViewBytes(abView) ==
  SubSeq(Heap[abView.buffer].bytes, abView.byteOffset + 1,
         abView.byteOffset + abView.byteLength)

\* DefaultSerializer._writeHostObject (1079-1096)
DefaultWriteHostObject(s, a) ==
  LET abView == Heap[a]
      tag == ClassTag(abView)
      i == IF abView.kind = "View" /\ abView.ctor = "Buffer"
             THEN bufferConstructorIndex
             ELSE arrayBufferViewTypeToIndex(tag)
  IN  IF i = Undefined
        THEN ThrowViaGetDataCloneError(s, "Unknown host object type: " \o tag)
        ELSE WriteRawBytes(
               WriteUint32(WriteUint32(s, I(i)), I(abView.byteLength)),
               ViewBytes(abView))

\* the writeUint64 calls of the test's hook, in order (test.js 103-107)
RECURSIVE WriteUint64Pairs(_, _)
WriteUint64Pairs(s, pairs) ==
  IF pairs = << >> THEN s
  ELSE WriteUint64Pairs(WriteUint64(s, Head(pairs)[1], Head(pairs)[2]),
                        Tail(pairs))

\* the _writeHostObject of the test (test.js 96-109): it accepts the handle
\* only, and writes its name, its 64-bit pairs and its double
HookWriteHostObject(s, a) ==
  IF Heap[a].kind # "Host" THEN Throw(s, "AssertionError", "")
  ELSE LET p == Heap[a].payload
           s1 == WriteRawBytes(WriteUint32(s, I(Len(p.name))), p.name)
       IN  WriteDouble(WriteUint64Pairs(s1, p.pairs), p.dbl)

\* kWriteHostObject (994-999, 927-930): the delegate's part of WriteHostObject
DelegateWriteHostObject(s, a) ==
  LET s1 == [s EXCEPT !.hostObjectCalls = @ + 1]
  IN  IF s.cls = "Node"
        THEN Throw(s, "Error", ReplaceObject(kDataCloneError, StringOf(Heap[a])))
      ELSE IF s.cls = "Hook" THEN HookWriteHostObject(s1, a)
      ELSE IF s.cls = "Throw" THEN Throw(s1, "Error", "foobar")
      ELSE DefaultWriteHostObject(s1, a)

\* WriteHostObject (457-463)
WriteHostObject(s, a) ==
  LET s1 == WriteTag(s, kHostObject)
  IN  IF ~ Ok(s1) THEN s1 ELSE DelegateWriteHostObject(s1, a)

\* WriteJSArrayBuffer (434-445)
WriteJSArrayBuffer(s, a) ==
  IF ~ Ok(s) THEN s
  ELSE IF MapHas(s.array_buffer_transfer_map_, Ref(a))
    THEN WriteVarint(WriteTag(s, kArrayBufferTransfer),
                     MapGet(s.array_buffer_transfer_map_, Ref(a)))
    ELSE WriteRawBytes(
           WriteVarint(WriteTag(s, kArrayBuffer), I(Len(Heap[a].bytes))),
           Heap[a].bytes)

\* WriteJSArrayBufferView (447-455)
WriteJSArrayBufferView(s, a, name) ==
  IF ~ Ok(s) THEN s
  ELSE IF s.treat_array_buffer_views_as_host_objects_
    THEN WriteHostObject(s, a)
    ELSE LET tagv == ArrayBufferViewTagsProperty(name)
             s1 == WriteVarint(WriteTag(s, kArrayBufferView),
                               IF tagv = Undefined THEN Undef ELSE I(tagv))
         IN  WriteVarint(WriteVarint(s1, I(Heap[a].byteOffset)),
                         I(Heap[a].byteLength))

\* WriteJSDate (400-403)
WriteJSDate(s, a) == WriteDouble(WriteTag(s, kDate), Heap[a].time)

\* WriteJSRegExp (405-409)
WriteJSRegExp(s, a) ==
  WriteVarint(WriteString(WriteTag(s, kRegExp), Heap[a].source),
              I(RegexpFlagsAsInteger(Heap[a].flags)))

RECURSIVE WriteObject(_, _)
RECURSIVE WriteJSReceiver(_, _)

\* the loop of WriteJSObjectPropertiesSlow (467-470)
RECURSIVE WriteProperties(_, _)
WriteProperties(s, props) ==
  IF ~ Ok(s) \/ props = << >> THEN s
  ELSE WriteProperties(
         WriteObject(WriteObject(s, Str(Head(props)[1])), Head(props)[2]),
         Tail(props))

\* WriteJSObjectPropertiesSlow (465-472): every key of Object.keys(object) is
\* written, whatever skipNumericProperties says; the result is keys.length
PropertiesWritten(a, skipNumericProperties) == Len(OwnProps(Heap[a]))

WriteJSObjectPropertiesSlow(s, a, skipNumericProperties) ==
  WriteProperties(s, OwnProps(Heap[a]))

\* WriteJSObject without the count of properties after the end tag
WriteJSObjectWithoutCount(s, a) ==
  WriteTag(WriteJSObjectPropertiesSlow(WriteTag(s, kBeginJSObject), a, FALSE),
           kEndJSObject)

\* WriteJSObject (377-382)
WriteJSObject(s, a) ==
  LET s1 == WriteJSObjectPropertiesSlow(WriteTag(s, kBeginJSObject), a, FALSE)
  IN  WriteVarint(WriteTag(s1, kEndJSObject), I(PropertiesWritten(a, FALSE)))

\* the loop of WriteJSArray over the indices (388-393)
RECURSIVE WriteElements(_, _)
WriteElements(s, elems) ==
  IF ~ Ok(s) \/ elems = << >> THEN s
  ELSE WriteElements(
         IF Head(elems) = Hole THEN WriteTag(s, kTheHole)
         ELSE WriteObject(s, Head(elems)),
         Tail(elems))

\* WriteJSArray (384-398)
WriteJSArray(s, a) ==
  LET length == Len(Heap[a].elems)
      s1 == WriteVarint(WriteTag(s, kBeginDenseJSArray), I(length))
      s2 == WriteJSObjectPropertiesSlow(WriteElements(s1, Heap[a].elems), a, TRUE)
      s3 == WriteVarint(WriteTag(s2, kEndDenseJSArray),
                        I(PropertiesWritten(a, TRUE)))
  IN  WriteVarint(s3, I(length))

\* the loop of WriteJSMap (414-418)
RECURSIVE WriteEntries(_, _)
WriteEntries(s, entries) ==
  IF ~ Ok(s) \/ entries = << >> THEN s
  ELSE WriteEntries(
         WriteObject(WriteObject(s, Head(entries)[1]), Head(entries)[2]),
         Tail(entries))

\* WriteJSMap (411-421)
WriteJSMap(s, a) ==
  LET s1 == WriteEntries(WriteTag(s, kBeginJSMap), Heap[a].entries)
  IN  WriteVarint(WriteTag(s1, kEndJSMap), I(2 * Len(Heap[a].entries)))

\* the loop of WriteJSSet (426-429)
RECURSIVE WriteMembers(_, _)
WriteMembers(s, entries) ==
  IF ~ Ok(s) \/ entries = << >> THEN s
  ELSE WriteMembers(WriteObject(s, Head(entries)), Tail(entries))

\* WriteJSSet (423-432)
WriteJSSet(s, a) ==
  LET s1 == WriteMembers(WriteTag(s, kBeginJSSet), Heap[a].entries)
  IN  WriteVarint(WriteTag(s1, kEndJSSet), I(Len(Heap[a].entries)))

\* the dispatch of WriteJSReceiver on the kind of the object (336-374)
WriteByKind(s, a) ==
  LET object == Heap[a]
      tag == ClassTag(object)
  IN  IF object.kind = "Array" THEN WriteJSArray(s, a)
      ELSE IF tag = "[object Date]" THEN WriteJSDate(s, a)
      ELSE IF tag = "[object RegExp]" THEN WriteJSRegExp(s, a)
      ELSE IF tag = "[object Map]" THEN WriteJSMap(s, a)
      ELSE IF tag = "[object Set]" THEN WriteJSSet(s, a)
      ELSE IF tag = "[object ArrayBuffer]" THEN WriteJSArrayBuffer(s, a)
      ELSE IF tag = "[object Object]" THEN WriteJSObject(s, a)
      ELSE IF tag = "[object Boolean]"
        THEN WriteTag(s, IF object.value THEN kTrueObject ELSE kFalseObject)
      ELSE IF tag = "[object Number]"
        THEN WriteDouble(WriteTag(s, kNumberObject), object.value)
      ELSE IF tag = "[object String]"
        THEN WriteString(WriteTag(s, kStringObject), object.value)
      ELSE IF ArrayBufferViewTagsGet(tag) # "undefined"
        THEN WriteJSArrayBufferView(s, a, ArrayBufferViewTagsGet(tag))
      ELSE WriteHostObject(s, a)

\* WriteJSReceiver with the stored id + 1 written as the reference
WriteJSReceiverStoredId(s, a) ==
  IF ~ Ok(s) THEN s
  ELSE IF MapHas(s.id_map_, Ref(a))
    THEN WriteVarint(WriteTag(s, kObjectReference),
                     I(MapGet(s.id_map_, Ref(a))))
    ELSE LET s1 == [s EXCEPT !.next_id_ = @ + 1,
                             !.id_map_ = MapSet(@, Ref(a), s.next_id_ + 1)]
             s2 == IF ArrayBufferViewTagsGet(ClassTag(Heap[a])) # "undefined"
                      /\ ~ s1.treat_array_buffer_views_as_host_objects_
                     THEN WriteJSReceiver(s1, Heap[a].buffer)
                     ELSE s1
             s3 == IF Heap[a].kind = "Function"
                     THEN ThrowDataCloneError(s2, kDataCloneError, Heap[a])
                     ELSE s2
         IN  IF ~ Ok(s3) THEN s3 ELSE WriteByKind(s3, a)

\* WriteJSReceiver (314-375)
WriteJSReceiver(s, a) ==
  IF ~ Ok(s) THEN s
  ELSE IF MapHas(s.id_map_, Ref(a))
    THEN WriteVarint(WriteTag(s, kObjectReference),
                     I(MapGet(s.id_map_, Ref(a)) - 1))
    ELSE LET id == s.next_id_
             s1 == [s EXCEPT !.next_id_ = @ + 1,
                             !.id_map_ = MapSet(@, Ref(a), id + 1)]
             tag == ClassTag(Heap[a])
             s2 == IF ArrayBufferViewTagsGet(tag) # "undefined"
                      /\ ~ s1.treat_array_buffer_views_as_host_objects_
                     THEN WriteJSReceiver(s1, Heap[a].buffer)
                     ELSE s1
             s3 == IF Heap[a].kind = "Function"
                     THEN ThrowDataCloneError(s2, kDataCloneError, Heap[a])
                     ELSE s2
         IN  IF ~ Ok(s3) THEN s3 ELSE WriteByKind(s3, a)

\* WriteObject (270-292)
WriteObject(s, object) ==
  IF ~ Ok(s) THEN s
  ELSE IF IsNumber(object) /\ IsInt32(object) THEN WriteInt32(s, object)
  ELSE IF object = Bool(TRUE) THEN WriteTag(s, kTrue)
  ELSE IF object = Bool(FALSE) THEN WriteTag(s, kFalse)
  ELSE IF object = Undef THEN WriteTag(s, kUndefined)
  ELSE IF object = Null THEN WriteTag(s, kNull)
  ELSE IF IsNumber(object) THEN WriteDouble(WriteTag(s, kDouble), object)
  ELSE IF object.t = "str" THEN WriteString(s, object.s)
  ELSE WriteJSReceiver(s, object.a)

\* WriteHeader (183-186)
WriteHeader(s) == WriteVarint(WriteTag(s, kVersion), I(kLatestVersion))

(***************************************************************************)
(* ValueDeserializer (484-924) with its delegate, a NodeBindingDeserializer*)
(* (1002-1057) or a DefaultDeserializer (1099-1126).  cls names it:        *)
(*   "Default"  new DefaultDeserializer(input)                             *)
(*   "Node"     new Deserializer(input)                                    *)
(*   "Hook"     DefaultDeserializer, _readHostObject reads and checks the  *)
(*              payload of the handle and returns it (test.js 115-128)     *)
(* The objects a decoder creates live in its own heap, at the addresses    *)
(* after the caller's.  The first of them is the storage of the input      *)
(* (input.buffer), in which the input starts at byteOffset.                *)
(***************************************************************************)
DeserializerClasses == {"Default", "Node", "Hook"}

Zeros(n) == [ i \in 1..n |-> 0 ]

\* constructor (485-495, 1003-1007)
NewDeserializer(cls, input, byteOffset) ==
  [ cls |-> cls,
    id_map_ |-> << >>,
    next_id_ |-> 0,
    array_buffer_transfer_map_ |-> << >>,
    buffer_ |-> input,
    byteOffset |-> byteOffset,
    position_ |-> 0,
    version_ |-> I(0),
    heap |-> << ArrayBuffer(Zeros(byteOffset) \o input) >>,
    err |-> NoErr,
    ret |-> Undef,
    tag |-> Undefined,
    pair |-> << >>,
    bytes |-> << >>,
    n |-> 0 ]

\* the address of input.buffer
StorageAddr == DecBase + 1

\* the object at an address, the caller's or the decoder's
ObjectAt(heap, a) == IF a <= DecBase THEN Heap[a] ELSE heap[a - DecBase]

\* a new object of the decoder; its address is NewAddr of the state before
NewAddr(d) == DecBase + Len(d.heap) + 1

Alloc(d, obj) == [d EXCEPT !.heap = Append(@, obj)]

\* end_ (497-499)
End(d) == Len(d.buffer_)

\* this.buffer_[pos]
ByteAt(d, pos) ==
  IF pos >= 0 /\ pos < Len(d.buffer_) THEN d.buffer_[pos + 1] ELSE Undefined

\* byte_ (501-503)
Byte(d) == ByteAt(d, d.position_)

\* this._byte (line 544): the deserializer has no such property
UnderscoreByte(d) == Undefined

Return(d, value) == [d EXCEPT !.ret = value]

\* PeekTag (515-520): pos is a const, and pos++ on a padding byte throws
PeekTag(d) ==
  IF ~ Ok(d) THEN d
  ELSE IF d.position_ < End(d) /\ Byte(d) = kPadding
    THEN Throw(d, "TypeError", "Assignment to constant variable.")
    ELSE [d EXCEPT !.tag = Byte(d)]

\* the while loop of ReadTag (528-531)
RECURSIVE SkipPadding(_, _)
SkipPadding(d, pos) ==
  IF pos < End(d) /\ ByteAt(d, pos) = kPadding THEN SkipPadding(d, pos + 1)
  ELSE pos

\* ReadTag (527-536)
ReadTag(d) ==
  IF ~ Ok(d) THEN d
  ELSE LET pos == SkipPadding(d, d.position_)
       IN  [d EXCEPT !.tag = ByteAt(d, pos), !.position_ = pos + 1]

\* ConsumeTag (522-525)
ConsumeTag(d) ==
  LET d1 == ReadTag(d)
  IN  IF ~ Ok(d1) THEN d1
      ELSE IF d1.tag = Undefined THEN Throw(d1, "AssertionError", "")
      ELSE d1

\* the do-while loop of ReadVarint (541-546): << value, position >> after it
RECURSIVE VarintLoop(_, _, _, _)
VarintLoop(d, pos, value, k) ==
  LET value2 == AddU(value, ShlN(U(BitAnd(ByteAt(d, pos), 1, 128)), 7 * k))
      has_another_byte == BitAnd(UnderscoreByte(d), 128, 2)
  IN  IF has_another_byte # 0
        THEN VarintLoop(d, pos + 1, value2, k + 1)
        ELSE << value2, pos + 1 >>

\* ReadVarint (538-552)
ReadVarint(d) ==
  IF ~ Ok(d) THEN d
  ELSE LET r == VarintLoop(d, d.position_, U(0), 0)
           d1 == [d EXCEPT !.position_ = r[2]]
       IN  IF r[2] > End(d)
             THEN Throw(d1, "Error", kDataCloneDeserializationError)
             ELSE Return(d1, Num(FALSE, r[1]))

\* ReadZigZag (554-569)
ReadZigZag(d) ==
  LET d1 == ReadVarint(d)
      unsigned_value == d1.ret.mag
  IN  IF ~ Ok(d1) THEN d1
      ELSE IF FitsInt31(unsigned_value)
        THEN \* unsigned_value & 1 ? -(unsigned_value >> 1) : unsigned_value >> 1
             Return(d1, Num(unsigned_value[1] % 2 = 1, Shr1(unsigned_value)))
        ELSE \* -Math.floor(unsigned_value / 2) or Math.floor(unsigned_value / 2)
             Return(d1, Num(unsigned_value[1] % 2 = 1, Shr1(unsigned_value)))

\* ReadDouble (571-575): readDoubleLE checks its offset
ReadDouble(d) ==
  IF ~ Ok(d) THEN d
  ELSE IF d.position_ + 8 > End(d) THEN Throw(d, "RangeError", "Index out of range")
  ELSE Return([d EXCEPT !.position_ = @ + 8],
              Float64Value(SubSeq(d.buffer_, d.position_ + 1, d.position_ + 8)))

\* buffer.slice(start, end) on the bytes
Slice(buffer, start, end) ==
  LET lo == IF start > Len(buffer) THEN Len(buffer) ELSE start
      hi == IF end > Len(buffer) THEN Len(buffer) ELSE end
  IN  SubSeq(buffer, lo + 1, hi)

\* ReadRawBytes (577-581)
ReadRawBytes(d, size) ==
  IF ~ Ok(d) THEN d
  ELSE [d EXCEPT !.bytes = Slice(d.buffer_, d.position_, d.position_ + size),
                 !.position_ = @ + size]

\* ReadUint32 (583-585)
ReadUint32(d) == ReadVarint(d)

\* the for loop of ReadUint64 (line 591): the bytes with the high bit set
RECURSIVE CountContinuation(_, _)
CountContinuation(d, last) ==
  IF BitAnd(ByteAt(d, d.position_ + last), 128, 2) # 0
    THEN CountContinuation(d, last + 1)
    ELSE last

\* (this.buffer_[this.position_ + i] & mask) moved to bit shift of a half
Uint64Part(d, i, lowbit, width, down, shift) ==
  ShlN(U(BitAnd(ByteAt(d, d.position_ + i), lowbit, width) \div down), shift)

\* the switch of ReadUint64 without its case 9, the top bit of hi
Uint64HiWithoutCase9(d, last) ==
  LET c8 == IF last >= 8 THEN Uint64Part(d, 8, 1, 128, 1, 24) ELSE U(0)
      c7 == IF last >= 7 THEN Uint64Part(d, 7, 1, 128, 1, 17) ELSE U(0)
      c6 == IF last >= 6 THEN Uint64Part(d, 6, 1, 128, 1, 10) ELSE U(0)
      c5 == IF last >= 5 THEN Uint64Part(d, 5, 1, 128, 1, 3) ELSE U(0)
      c4 == IF last >= 4 THEN Uint64Part(d, 4, 16, 8, 16, 0) ELSE U(0)
  IN  AddU(AddU(AddU(AddU(c8, c7), c6), c5), c4)

\* the switch of ReadUint64 (593-605), every case falling through
Uint64Hi(d, last) ==
  LET c9 == IF last >= 9 THEN Uint64Part(d, 9, 1, 128, 1, 31) ELSE U(0)
      c8 == IF last >= 8 THEN Uint64Part(d, 8, 1, 128, 1, 24) ELSE U(0)
      c7 == IF last >= 7 THEN Uint64Part(d, 7, 1, 128, 1, 17) ELSE U(0)
      c6 == IF last >= 6 THEN Uint64Part(d, 6, 1, 128, 1, 10) ELSE U(0)
      c5 == IF last >= 5 THEN Uint64Part(d, 5, 1, 128, 1, 3) ELSE U(0)
      c4 == IF last >= 4 THEN Uint64Part(d, 4, 16, 8, 16, 0) ELSE U(0)
  IN  AddU(AddU(AddU(AddU(AddU(c9, c8), c7), c6), c5), c4)

Uint64Lo(d, last) ==
  LET c4 == IF last >= 4 THEN Uint64Part(d, 4, 1, 16, 1, 28) ELSE U(0)
      c3 == IF last >= 3 THEN Uint64Part(d, 3, 1, 128, 1, 21) ELSE U(0)
      c2 == IF last >= 2 THEN Uint64Part(d, 2, 1, 128, 1, 14) ELSE U(0)
      c1 == IF last >= 1 THEN Uint64Part(d, 1, 1, 128, 1, 7) ELSE U(0)
      c0 == Uint64Part(d, 0, 1, 128, 1, 0)
  IN  AddU(AddU(AddU(AddU(c4, c3), c2), c1), c0)

\* ReadUint64 (587-612); the pair [hi, lo] is left in pair
ReadUint64(d) ==
  IF ~ Ok(d) THEN d
  ELSE LET last == CountContinuation(d, 0)
           d1 == [d EXCEPT !.position_ = @ + last + 1]
       IN  IF last > 9 THEN Throw(d, "Error", kDataCloneDeserializationError)
           ELSE IF d1.position_ > End(d)
             THEN Throw(d1, "Error", kDataCloneDeserializationError)
           ELSE [d1 EXCEPT !.pair = << Num(FALSE, Uint64Hi(d, last)),
                                       Num(FALSE, Uint64Lo(d, last)) >>]

\* TransferArrayBuffer (614-617): the buffer is the key, the id the value
DeserializerTransferArrayBuffer(d, transfer_id, array_buffer) ==
  [d EXCEPT !.array_buffer_transfer_map_ =
              MapSet(@, Ref(array_buffer), I(transfer_id))]

\* GetWireFormatVersion (921-923)
GetWireFormatVersion(d) == d.version_

\* a number below 2^31 as an integer of the model
IntOf(v) == v.mag[1] + Limb * v.mag[2]

\* buffer.toString('latin1')
Latin1String(bytes) == bytes

\* buffer.toString('utf16le'): a trailing odd byte is dropped
Utf16leString(bytes) ==
  [ i \in 1..(Len(bytes) \div 2) |-> bytes[2 * i - 1] + 256 * bytes[2 * i] ]

\* buffer.toString('utf8'), for ASCII; any other byte is shown as U+FFFD
Utf8String(bytes) ==
  [ i \in 1..Len(bytes) |-> IF bytes[i] < 128 THEN bytes[i] ELSE 65533 ]

sUndefined == << 117, 110, 100, 101, 102, 105, 110, 101, 100 >>
sNull == << 110, 117, 108, 108 >>
sTrue == << 116, 114, 117, 101 >>
sFalse == << 102, 97, 108, 115, 101 >>
sObjectObject == << 91, 111, 98, 106, 101, 99, 116, 32, 79, 98, 106, 101, 99,
                    116, 93 >>

\* String(value) for a property key or a string wrapper: exact for strings,
\* for integers below 2^31 and for the literals; every other value is shown
\* as "[object Object]"
ToStringUnits(v) ==
  IF v.t = "str" THEN v.s
  ELSE IF v.t = "num" /\ FitsInt31(v.mag)
    THEN (IF v.neg /\ ~ IsZeroU(v.mag) THEN << 45 >> ELSE << >>)
           \o DecimalString(IntOf(v))
  ELSE IF v.t = "undefined" THEN sUndefined
  ELSE IF v.t = "null" THEN sNull
  ELSE IF v.t = "bool" THEN (IF v.b THEN sTrue ELSE sFalse)
  ELSE sObjectObject

\* the array index a key stands for, or Undefined: a canonical decimal
\* numeral of at most three digits
ArrayIndexOf(units) ==
  IF /\ Len(units) \in 1..3
     /\ \A i \in 1..Len(units) : units[i] >= 48 /\ units[i] <= 57
     /\ (Len(units) > 1 => units[1] # 48)
    THEN IF Len(units) = 1 THEN units[1] - 48
         ELSE IF Len(units) = 2 THEN 10 * (units[1] - 48) + (units[2] - 48)
         ELSE 100 * (units[1] - 48) + 10 * (units[2] - 48) + (units[3] - 48)
    ELSE Undefined

\* array[i] = value: the array grows, with holes, to hold index i
SetElement(elems, i, value) ==
  [ j \in 1..(IF i + 1 > Len(elems) THEN i + 1 ELSE Len(elems)) |->
      IF j = i + 1 THEN value
      ELSE IF j <= Len(elems) THEN elems[j]
      ELSE Hole ]

\* object[key] = value (line 916) on a record, an array or any object
PutProperty(obj, key, value) ==
  LET units == ToStringUnits(key)
  IN  IF obj.kind = "Array" /\ ArrayIndexOf(units) # Undefined
        THEN [obj EXCEPT !.elems = SetElement(@, ArrayIndexOf(units), value)]
        ELSE [obj EXCEPT !.props = MapSet(@, units, value)]

\* the object at address a of the decoder's heap replaced
Update(d, a, obj) == [d EXCEPT !.heap[a - DecBase] = obj]

\* what follows a call in a method: nothing when the call threw, since the
\* exception leaves the method; F of the state after the call otherwise
Bind(d, F(_)) == IF ~ Ok(d) THEN d ELSE F(d)

RECURSIVE ReadObject(_)

\* ReadUtf8String, ReadOneByteString, ReadTwoByteString (702-715)
ReadUtf8String(d) ==
  Bind(ReadVarint(d), LAMBDA d1 :
    Bind(ReadRawBytes(d1, IntOf(d1.ret)), LAMBDA d2 :
      Return(d2, Str(Utf8String(d2.bytes)))))

ReadOneByteString(d) ==
  Bind(ReadVarint(d), LAMBDA d1 :
    Bind(ReadRawBytes(d1, IntOf(d1.ret)), LAMBDA d2 :
      Return(d2, Str(Latin1String(d2.bytes)))))

ReadTwoByteString(d) ==
  Bind(ReadVarint(d), LAMBDA d1 :
    Bind(ReadRawBytes(d1, IntOf(d1.ret)), LAMBDA d2 :
      Return(d2, Str(Utf16leString(d2.bytes)))))

\* ReadString (697-700)
ReadString(d) ==
  IF ~ Ok(d) THEN d
  ELSE IF LessU(d.version_.mag, U(12)) THEN ReadUtf8String(d)
  ELSE ReadObject(d)

\* this.next_id_++ and this.id_map_.set(id, value)
NextId(d) == [d EXCEPT !.next_id_ = @ + 1]

Register(d, id, value) == [d EXCEPT !.id_map_ = MapSet(@, I(id), value)]

\* ReadJSObjectProperties (904-919); the count is left in n
RECURSIVE ReadJSObjectProperties(_, _, _, _)
ReadJSObjectProperties(d, a, end_tag, num_properties) ==
  Bind(PeekTag(d), LAMBDA p :
    IF p.tag = end_tag
      THEN Bind(ConsumeTag(p), LAMBDA c : [c EXCEPT !.n = num_properties])
      ELSE Bind(ReadObject(p), LAMBDA k :
             Bind(ReadObject(k), LAMBDA v :
               ReadJSObjectProperties(
                 Update(v, a, PutProperty(ObjectAt(v.heap, a), k.ret, v.ret)),
                 a, end_tag, num_properties + 1))))

\* ReadJSObject (717-727)
ReadJSObject(d) ==
  Bind(ReadJSObjectProperties(
         Register(Alloc(NextId(d), Obj(<< >>)), d.next_id_, Ref(NewAddr(d))),
         NewAddr(d), kEndJSObject, 0), LAMBDA d2 :
    Bind(ReadVarint(d2), LAMBDA d3 :
      IF I(d2.n) # d3.ret
        THEN Throw(d3, "Error", kDataCloneDeserializationError)
        ELSE Return(d3, Ref(NewAddr(d)))))

\* the checks that end ReadSparseJSArray and ReadDenseJSArray (737-745,
\* 767-775): the counts, then assert(this.id_map_.has(id))
EndJSArray(d, array, id, length) ==
  Bind(ReadVarint(d), LAMBDA d1 :
    Bind(ReadVarint(d1), LAMBDA d2 :
      IF I(d.n) # d1.ret \/ length # d2.ret
        THEN Throw(d2, "Error", kDataCloneDeserializationError)
      ELSE IF ~ MapHas(d2.id_map_, I(id)) THEN Throw(d2, "AssertionError", "")
      ELSE Return(d2, Ref(array))))

\* ReadSparseJSArray (729-746): the array is not put into id_map_
ReadSparseJSArray(d) ==
  Bind(ReadVarint(d), LAMBDA d1 :
    Bind(ReadJSObjectProperties(Alloc(NextId(d1), Arr(<< >>, << >>)),
                                NewAddr(d1), kEndSparseJSArray, 0), LAMBDA d3 :
      EndJSArray(d3, NewAddr(d1), d1.next_id_, d1.ret)))

\* the for loop of ReadDenseJSArray (753-762)
RECURSIVE ReadElements(_, _, _, _)
ReadElements(d, a, i, length) ==
  IF ~ Ok(d) \/ ~ LessU(U(i), length.mag) THEN d
  ELSE ReadElements(
         Bind(PeekTag(d), LAMBDA p :
           IF p.tag = kTheHole THEN ConsumeTag(p)
           ELSE Bind(ReadObject(p), LAMBDA e :
                  IF LessU(e.version_.mag, U(11)) /\ e.ret = Undef THEN e
                  ELSE Update(e, a, [ObjectAt(e.heap, a) EXCEPT
                                       !.elems = SetElement(@, i, e.ret)]))),
         a, i + 1, length)

\* ReadDenseJSArray (748-776): the array is not put into id_map_
ReadDenseJSArray(d) ==
  Bind(ReadVarint(d), LAMBDA d1 :
    Bind(ReadJSObjectProperties(
           ReadElements(Alloc(NextId(d1), Arr(<< >>, << >>)),
                        NewAddr(d1), 0, d1.ret),
           NewAddr(d1), kEndDenseJSArray, 0), LAMBDA d4 :
      EndJSArray(d4, NewAddr(d1), d1.next_id_, d1.ret)))

\* ReadJSDate (778-783)
ReadJSDate(d) ==
  Bind(ReadDouble(NextId(d)), LAMBDA d1 :
    Return(Register(Alloc(d1, Date(d1.ret)), d.next_id_, Ref(NewAddr(d1))),
           Ref(NewAddr(d1))))

\* ReadJSValue (785-800)
ReadJSValue(d, tag) ==
  Bind(IF tag = kNumberObject THEN ReadDouble(NextId(d))
       ELSE IF tag = kStringObject THEN ReadString(NextId(d))
       ELSE NextId(d), LAMBDA d1 :
    Return(Register(Alloc(d1, IF tag = kTrueObject THEN BooleanObj(TRUE)
                              ELSE IF tag = kFalseObject THEN BooleanObj(FALSE)
                              ELSE IF tag = kNumberObject THEN NumberObj(d1.ret)
                              ELSE StringObj(ToStringUnits(d1.ret))),
                    d.next_id_, Ref(NewAddr(d1))),
           Ref(NewAddr(d1))))

\* ReadJSRegExp (802-809): patter is not defined, evaluating it throws
ReadJSRegExp(d) ==
  Bind(ReadString(NextId(d)), LAMBDA d1 :
    Bind(ReadVarint(d1), LAMBDA d2 :
      Throw(d2, "ReferenceError", "patter is not defined")))

\* the loop of ReadJSMap (817-828); twice the number of entries is left in n
RECURSIVE ReadMapEntries(_, _, _)
ReadMapEntries(d, a, length) ==
  Bind(PeekTag(d), LAMBDA p :
    IF p.tag = kEndJSMap
      THEN Bind(ConsumeTag(p), LAMBDA c : [c EXCEPT !.n = length])
      ELSE Bind(ReadObject(p), LAMBDA k :
             Bind(ReadObject(k), LAMBDA v :
               ReadMapEntries(
                 Update(v, a, [ObjectAt(v.heap, a) EXCEPT
                                 !.entries = MapSet(@, k.ret, v.ret)]),
                 a, length + 2))))

\* ReadJSMap (811-835)
ReadJSMap(d) ==
  Bind(ReadMapEntries(
         Register(Alloc(NextId(d), MapObj(<< >>)), d.next_id_, Ref(NewAddr(d))),
         NewAddr(d), 0), LAMBDA d2 :
    Bind(ReadVarint(d2), LAMBDA d3 :
      IF d3.ret # I(d2.n)
        THEN Throw(d3, "Error", kDataCloneDeserializationError)
        ELSE Return(d3, Ref(NewAddr(d)))))

\* set.add(value)
SetAdd(entries, value) ==
  IF \E i \in 1..Len(entries) : entries[i] = value THEN entries
  ELSE Append(entries, value)

\* the loop of ReadJSSet (843-853); the number of values is left in n
RECURSIVE ReadSetMembers(_, _, _)
ReadSetMembers(d, a, length) ==
  Bind(PeekTag(d), LAMBDA p :
    IF p.tag = kEndJSSet
      THEN Bind(ConsumeTag(p), LAMBDA c : [c EXCEPT !.n = length])
      ELSE Bind(ReadObject(p), LAMBDA v :
             ReadSetMembers(
               Update(v, a, [ObjectAt(v.heap, a) EXCEPT
                               !.entries = SetAdd(@, v.ret)]),
               a, length + 1)))

\* ReadJSSet (837-860)
ReadJSSet(d) ==
  Bind(ReadSetMembers(
         Register(Alloc(NextId(d), SetObj(<< >>)), d.next_id_, Ref(NewAddr(d))),
         NewAddr(d), 0), LAMBDA d2 :
    Bind(ReadVarint(d2), LAMBDA d3 :
      IF d3.ret # I(d2.n)
        THEN Throw(d3, "Error", kDataCloneDeserializationError)
        ELSE Return(d3, Ref(NewAddr(d)))))

\* source.copy(target, targetStart, sourceStart), target a Uint8Array over
\* the bytes ab from viewOffset, viewLength long: the bytes of ab afterwards
BufferCopy(source, ab, viewOffset, viewLength, targetStart, sourceStart) ==
  LET room == IF targetStart >= viewLength THEN 0 ELSE viewLength - targetStart
      have == IF sourceStart >= Len(source) THEN 0 ELSE Len(source) - sourceStart
      count == IF room < have THEN room ELSE have
  IN  [ i \in 1..Len(ab) |->
          IF i > viewOffset + targetStart /\ i <= viewOffset + targetStart + count
            THEN source[sourceStart + (i - viewOffset - targetStart)]
            ELSE ab[i] ]

\* ReadJSArrayBuffer (862-870): the target of the copy is
\* new Uint8Array(ab, byte_length, 0), a view of no bytes at the end of ab
ReadJSArrayBuffer(d) ==
  Bind(ReadVarint(NextId(d)), LAMBDA d1 :
    Return(Register([Alloc(d1, ArrayBuffer(
                             BufferCopy(d1.buffer_, Zeros(IntOf(d1.ret)),
                                        IntOf(d1.ret), 0, 0, d1.position_)))
                       EXCEPT !.position_ = @ + IntOf(d1.ret)],
                    d.next_id_, Ref(NewAddr(d1))),
           Ref(NewAddr(d1))))

\* ReadTransferredJSArrayBuffer (872-879): get(transfer_id) on a map whose
\* keys are the buffers
ReadTransferredJSArrayBuffer(d) ==
  Bind(ReadVarint(NextId(d)), LAMBDA d1 :
    IF ~ MapHas(d1.array_buffer_transfer_map_, d1.ret)
      THEN Throw(d1, "Error", kDataCloneDeserializationError)
      ELSE Return(Register(d1, d.next_id_,
                           MapGet(d1.array_buffer_transfer_map_, d1.ret)),
                  MapGet(d1.array_buffer_transfer_map_, d1.ret)))

\* ArrayBufferViewTypes[typeIndex] (line 1106), or "undefined"
ConstructorAt(typeIndex) ==
  IF FitsInt31(typeIndex.mag) /\ IntOf(typeIndex) < Len(ArrayBufferViewTypes)
    THEN ArrayBufferViewTypes[IntOf(typeIndex) + 1]
    ELSE "undefined"

\* _readRawBytes (1037-1041): the offset in the input of the bytes read
ReadRawBytesOffset(d, length) ==
  Bind(ReadRawBytes(d, length), LAMBDA d1 :
    [d1 EXCEPT !.n = IF d.position_ > End(d) THEN End(d) ELSE d.position_])

\* _readHostObject without its alignment test: always a view over the input
NewViewOverInput(d, ctor, byteOffset, byteLength) ==
  Return(Alloc(d, View(ctor, StorageAddr, d.byteOffset + byteOffset, byteLength)),
         Ref(NewAddr(d)))

\* new ctor(...) of DefaultDeserializer._readHostObject (1109-1124), over
\* the storage of the input when the offset is aligned, over a copy
\* otherwise.  The bytes of the copy that the input does not fill are zeros.
NewView(d, ctor, byteOffset, byteLength) ==
  LET bpe == IF BYTES_PER_ELEMENT[ctor] = 0 THEN 1 ELSE BYTES_PER_ELEMENT[ctor]
      offset == d.byteOffset + byteOffset
      viewLength == (byteLength \div bpe) * bpe
  IN  IF offset % bpe = 0
        THEN IF offset + viewLength > d.byteOffset + End(d)
               THEN Throw(d, "RangeError", "Invalid typed array length")
               ELSE Return(Alloc(d, View(ctor, StorageAddr, offset, viewLength)),
                           Ref(NewAddr(d)))
        ELSE Return(Alloc(Alloc(d, ArrayBuffer(
                                     BufferCopy(Slice(d.buffer_, byteOffset,
                                                      byteOffset + byteLength),
                                                Zeros(byteLength),
                                                0, byteLength, 0, 0))),
                          View(ctor, NewAddr(d), 0, viewLength)),
                    Ref(NewAddr(d) + 1))

\* DefaultDeserializer._readHostObject (1104-1125)
DefaultReadHostObject(d) ==
  Bind(ReadUint32(d), LAMBDA d1 :
    Bind(ReadUint32(d1), LAMBDA d2 :
      Bind(ReadRawBytesOffset(d2, IntOf(d2.ret)), LAMBDA d3 :
        IF ConstructorAt(d1.ret) = "undefined"
          THEN Throw(d3, "TypeError",
                     "Cannot read property 'BYTES_PER_ELEMENT' of undefined")
          ELSE NewView(d3, ConstructorAt(d1.ret), d3.n, IntOf(d2.ret)))))

\* the readUint64 calls of the test's hook, each checked against the pair
\* the handle was written with (test.js 121-125)
RECURSIVE ReadUint64Pairs(_, _)
ReadUint64Pairs(d, pairs) ==
  IF pairs = << >> THEN d
  ELSE Bind(ReadUint64(d), LAMBDA d1 :
         IF d1.pair # Head(pairs) THEN Throw(d1, "AssertionError", "")
         ELSE ReadUint64Pairs(d1, Tail(pairs)))

\* the handle the hooks of the test are about: process.stdin._handle
StdinHandle == CHOOSE a \in Addrs : Heap[a].kind = "Host"

\* the _readHostObject of the test (test.js 115-128): it reads and checks
\* the name, the 64-bit pairs and the double, and returns the handle
HookReadHostObject(d) ==
  Bind(ReadUint32(d), LAMBDA d1 :
    Bind(ReadRawBytes(d1, IntOf(d1.ret)), LAMBDA d2 :
      IF Utf8String(d2.bytes) # StdinPayload.name
        THEN Throw(d2, "AssertionError", "")
        ELSE Bind(ReadUint64Pairs(d2, StdinPayload.pairs), LAMBDA d3 :
               Bind(ReadDouble(d3), LAMBDA d4 :
                 IF d4.ret # StdinPayload.dbl
                   THEN Throw(d4, "AssertionError", "")
                   ELSE Return(d4, Ref(StdinHandle))))))

\* kReadHostObject (1047-1056, 933-937)
DelegateReadHostObject(d) ==
  IF d.cls = "Node" THEN Throw(d, "Error", kDataCloneDeserializationError)
  ELSE IF d.cls = "Hook" THEN HookReadHostObject(d)
  ELSE DefaultReadHostObject(d)

\* ReadHostObject (894-902)
ReadHostObject(d) ==
  Bind(DelegateReadHostObject(NextId(d)), LAMBDA d1 :
    Register(d1, d.next_id_, d1.ret))

\* ReadObject (632-695).  The class body defines ReadObject twice (619-630
\* and 632-695); the later definition replaces the earlier one, so this is
\* the method every caller reaches.
ReadObject(d) ==
  Bind(ReadTag(d), LAMBDA t :
    IF t.tag = kVerifyObjectCount THEN ReadObject(ReadVarint(t))
    ELSE IF t.tag = kUndefined THEN Return(t, Undef)
    ELSE IF t.tag = kNull THEN Return(t, Null)
    ELSE IF t.tag = kTrue THEN Return(t, Bool(TRUE))
    ELSE IF t.tag = kFalse THEN Return(t, Bool(FALSE))
    ELSE IF t.tag = kInt32 THEN ReadZigZag(t)
    ELSE IF t.tag = kUint32 THEN ReadVarint(t)
    ELSE IF t.tag = kDouble THEN ReadDouble(t)
    ELSE IF t.tag = kUtf8String THEN ReadUtf8String(t)
    ELSE IF t.tag = kOneByteString THEN ReadOneByteString(t)
    ELSE IF t.tag = kTwoByteString THEN ReadTwoByteString(t)
    ELSE IF t.tag = kObjectReference
      THEN Bind(ReadVarint(t), LAMBDA r :
             IF MapHas(r.id_map_, r.ret)
               THEN Return(r, MapGet(r.id_map_, r.ret))
               ELSE Return(r, Undef))
    ELSE IF t.tag = kBeginJSObject THEN ReadJSObject(t)
    ELSE IF t.tag = kBeginSparseJSArray THEN ReadSparseJSArray(t)
    ELSE IF t.tag = kBeginDenseJSArray THEN ReadDenseJSArray(t)
    ELSE IF t.tag = kDate THEN ReadJSDate(t)
    ELSE IF t.tag \in {kTrueObject, kFalseObject, kNumberObject, kStringObject}
      THEN ReadJSValue(t, t.tag)
    ELSE IF t.tag = kRegExp THEN ReadJSRegExp(t)
    ELSE IF t.tag = kBeginJSMap THEN ReadJSMap(t)
    ELSE IF t.tag = kBeginJSSet THEN ReadJSSet(t)
    ELSE IF t.tag = kArrayBuffer THEN ReadJSArrayBuffer(t)
    ELSE IF t.tag = kArrayBufferTransfer THEN ReadTransferredJSArrayBuffer(t)
    ELSE IF t.tag = kSharedArrayBuffer THEN ReadTransferredJSArrayBuffer(t)
    ELSE IF t.tag = kHostObject THEN ReadHostObject(t)
    ELSE IF LessU(t.version_.mag, U(13))
      THEN ReadHostObject([t EXCEPT !.position_ = @ - 1])
    ELSE Throw(t, "Error", kDataCloneDeserializationError))

\* ReadHeader (505-513)
ReadHeader(d) ==
  Bind(PeekTag(d), LAMBDA p :
    IF p.tag # kVersion THEN p
    ELSE Bind(ReadVarint(ReadTag(p)), LAMBDA d1 :
           IF LessU(U(kLatestVersion), d1.ret.mag)
             THEN Throw([d1 EXCEPT !.version_ = d1.ret], "Error",
                        kDataCloneDeserializationVersionError)
             ELSE [d1 EXCEPT !.version_ = d1.ret]))

(***************************************************************************)
(* The callers.  A caller makes an encoder, writes the header and then     *)
(* values (or, in SpecPrim, the primitives a host object hook uses),       *)
(* releases the bytes and gives them to a decoder, which reads the header  *)
(* and then reads.  wlog and rlog record what every call was given and     *)
(* what it returned or threw.  An exception ends the call that threw it;   *)
(* the encoder stays usable, the caller of a decoder that threw stops.     *)
(***************************************************************************)
VARIABLES phase, ser, wlog, des, rlog

vars == << phase, ser, wlog, des, rlog >>

\* the values a caller writes through writeValue
Primitives ==
  { Undef, Null, Bool(TRUE), Bool(FALSE),
    I(0), I(42), I(0 - 1), I(63), I(64), I(0 - 64),
    Num(FALSE, ShlN(U(1), 29)), Num(TRUE, ShlN(U(1), 29)),
    Num(FALSE, ShlN(U(1), 30)), Num(TRUE, ShlN(U(1), 30)),
    Num(TRUE, Two31), Num(FALSE, Two31), MinusQuarter,
    Str(<< >>), Str(sAou), Str(sAouUmlaut), Str(sParty) }

Palette(cls) ==
  IF cls = "Default" THEN Primitives \cup { Ref(a) : a \in Addrs }
  ELSE IF cls = "Node" THEN { Ref(a) : a \in {1, 12, 13, 14, 17, 21} }
  ELSE { Ref(a) : a \in {1, 16, 17, 18} }

\* the values written inside SpecPrim: the handle, bare and in a record
HostPalette == { Ref(17), Ref(18) }

\* the byte buffers a caller registers for transfer
TransferBuffers == { 12 }

\* the decoder class a caller pairs with an encoder class
DecoderFor(cls) ==
  IF cls = "Node" THEN "Node" ELSE IF cls = "Hook" THEN "Hook" ELSE "Default"

\* streams that no encoder of the model produces: padding before the header,
\* versions 14 and 128, no header, the self-referencing record of test.js
\* 153, the Uint16Array of test.js 169, a truncated record, a sparse array
\* of length 1 whose element 0 is the array itself
RawStreams ==
  { << 0, 255, 13, 95 >>,
    << 255, 14, 95 >>,
    << 255, 128, 1, 95 >>,
    << 95 >>,
    << 73, 84 >>,
    << 255, 13, 111, 34, 3, 102, 111, 111, 94, 0, 123, 1 >>,
    << 255, 13, 92, 4, 4, 173, 222, 239, 190 >>,
    << 255, 13, 111, 34, 3, 102 >>,
    << 255, 13, 97, 1, 73, 0, 94, 0, 64, 1, 1 >> }

\* the arguments of writeUint32, writeUint64, writeDouble and writeRawBytes
Uint32Values ==
  { I(0), I(1), I(127), I(128), I(300), Num(FALSE, ShlN(U(1), 31)),
    Num(FALSE, U32(65535, 65535)) }

Uint64Pairs ==
  { << I(1), I(2) >>, << I(1), I(0) >>, << I(0), I(0) >>, << I(258), I(772) >>,
    << Num(FALSE, U32(32768, 0)), Num(FALSE, U32(28672, 0)) >>,
    << I(0), I(128) >>, << I(8), I(0) >>,
    << I(0), Num(FALSE, U32(65535, 65535)) >>,
    << Num(FALSE, U32(65535, 65535)), Num(FALSE, U32(65535, 65535)) >>,
    << Num(FALSE, U32(32767, 65535)), I(1) >> }

DoubleValues == { MinusQuarter, I(1) }

RawBuffers == { sStdin }

\* a decoder before there is one
NoDeserializer == NewDeserializer("Default", << >>, 0)

\* the state of the encoder when a call starts: nothing thrown, no call of
\* _getDataCloneError or _writeHostObject counted yet
Begin(s) ==
  [s EXCEPT !.err = NoErr, !.cloneErrorCalls = << >>, !.hostObjectCalls = 0]

Written(op, arg, s) ==
  [ op |-> op, arg |-> arg, from |-> ser.written_bytes_,
    to |-> s.written_bytes_, err |-> s.err,
    cloneErrorCalls |-> s.cloneErrorCalls,
    hostObjectCalls |-> s.hostObjectCalls,
    registered |-> s.id_map_ ]

\* the result of a read: d.ret after readValue, readUint32 and readDouble,
\* d.pair after readUint64, d.bytes after readRawBytes
ReadResult(op, d) ==
  [ op |-> op, from |-> des.position_, to |-> d.position_, err |-> d.err,
    ret |-> IF op \in {"readValue", "readUint32", "readDouble"} THEN d.ret
            ELSE Undef,
    pair |-> IF op = "readUint64" THEN d.pair ELSE << >>,
    bytes |-> IF op = "readRawBytes" THEN d.bytes ELSE << >> ]

Init ==
  /\ phase = "write"
  /\ ser \in { NewSerializer(cls) : cls \in SerializerClasses }
  /\ wlog = << >>
  /\ des = NoDeserializer
  /\ rlog = << >>

InitPrim ==
  /\ phase = "write"
  /\ ser \in { NewSerializer(cls) : cls \in {"Default", "Hook"} }
  /\ wlog = << >>
  /\ des = NoDeserializer
  /\ rlog = << >>

HeaderWritten == ser.written_bytes_ > 0

\* ser.transferArrayBuffer(transfer_id, ab) (958-960, 265-268), before the
\* first value; a buffer already registered fails the assertion and
\* changes nothing
SerializerTransfer(transfer_id, a) ==
  /\ phase = "write" /\ wlog = << >>
  /\ ser.cls \in {"Default", "Node"}
  /\ ~ MapHas(ser.array_buffer_transfer_map_, Ref(a))
  /\ ser' = SerializerTransferArrayBuffer(ser, transfer_id, a)
  /\ UNCHANGED << phase, wlog, des, rlog >>

\* ser.writeHeader() (946-948)
WriteHeaderCall ==
  /\ phase = "write" /\ ~ HeaderWritten
  /\ ser' = WriteHeader(ser)
  /\ UNCHANGED << phase, wlog, des, rlog >>

CanWrite == phase = "write" /\ HeaderWritten /\ Len(wlog) < MaxWrites

\* ser.writeValue(value) (950-952)
WriteValue(value) ==
  /\ CanWrite
  /\ LET s == WriteObject(Begin(ser), value)
     IN  /\ ser' = s
         /\ wlog' = Append(wlog, Written("writeValue", value, s))
  /\ UNCHANGED << phase, des, rlog >>

\* ser.writeUint32(value) (962-964)
WriteUint32Call(value) ==
  /\ CanWrite
  /\ LET s == WriteUint32(Begin(ser), value)
     IN  /\ ser' = s
         /\ wlog' = Append(wlog, Written("writeUint32", value, s))
  /\ UNCHANGED << phase, des, rlog >>

\* ser.writeUint64(hi, lo) (966-968)
WriteUint64Call(hi, lo) ==
  /\ CanWrite
  /\ LET s == WriteUint64(Begin(ser), hi, lo)
     IN  /\ ser' = s
         /\ wlog' = Append(wlog, Written("writeUint64", << hi, lo >>, s))
  /\ UNCHANGED << phase, des, rlog >>

\* ser.writeDouble(value) (970-972)
WriteDoubleCall(value) ==
  /\ CanWrite
  /\ LET s == WriteDouble(Begin(ser), value)
     IN  /\ ser' = s
         /\ wlog' = Append(wlog, Written("writeDouble", value, s))
  /\ UNCHANGED << phase, des, rlog >>

\* ser.writeRawBytes(buffer) (974-976)
WriteRawBytesCall(buffer) ==
  /\ CanWrite
  /\ LET s == WriteRawBytes(Begin(ser), buffer)
     IN  /\ ser' = s
         /\ wlog' = Append(wlog, Written("writeRawBytes", buffer, s))
  /\ UNCHANGED << phase, des, rlog >>

\* ser.releaseBuffer() (954-956) and the constructor of the decoder over the
\* released bytes, which start at byteOffset of their storage
ReleaseBuffer(byteOffset) ==
  /\ phase = "write" /\ HeaderWritten
  /\ phase' = "read"
  /\ des' = NewDeserializer(DecoderFor(ser.cls), ser.kBufferList, byteOffset)
  /\ UNCHANGED << ser, wlog, rlog >>

\* a DefaultDeserializer over bytes that did not come from the encoder
RawInput(input, byteOffset) ==
  /\ phase = "write" /\ ~ HeaderWritten
  /\ ser = NewSerializer("Default")
  /\ phase' = "read"
  /\ des' = NewDeserializer("Default", input, byteOffset)
  /\ UNCHANGED << ser, wlog, rlog >>

ValuesRead == Len(rlog) - 1

\* des.transferArrayBuffer(transfer_id, ab) (1021-1023, 614-617), before the
\* first value is read
DeserializerTransfer(transfer_id, a) ==
  /\ phase = "read" /\ ValuesRead <= 0
  /\ des.cls \in {"Default", "Node"}
  /\ Ok(des)
  /\ ~ MapHas(des.array_buffer_transfer_map_, Ref(a))
  /\ des' = DeserializerTransferArrayBuffer(des, transfer_id, a)
  /\ UNCHANGED << phase, ser, wlog, rlog >>

\* des.readHeader() (1009-1011)
ReadHeaderCall ==
  /\ phase = "read" /\ rlog = << >>
  /\ LET d == ReadHeader(des)
     IN  /\ des' = d
         /\ rlog' = << ReadResult("readHeader", d) >>
  /\ UNCHANGED << phase, ser, wlog >>

CanRead ==
  /\ phase = "read" /\ rlog # << >> /\ Ok(des)
  /\ ValuesRead < Len(wlog) + ExtraReads

\* des.readValue() (1013-1015)
ReadValue ==
  /\ CanRead
  /\ LET d == ReadObject(des)
     IN  /\ des' = d
         /\ rlog' = Append(rlog, ReadResult("readValue", d))
  /\ UNCHANGED << phase, ser, wlog >>

\* des.readUint32() (1025-1027)
ReadUint32Call ==
  /\ CanRead
  /\ LET d == ReadUint32(des)
     IN  /\ des' = d
         /\ rlog' = Append(rlog, ReadResult("readUint32", d))
  /\ UNCHANGED << phase, ser, wlog >>

\* des.readUint64() (1029-1031)
ReadUint64Call ==
  /\ CanRead
  /\ LET d == ReadUint64(des)
     IN  /\ des' = d
         /\ rlog' = Append(rlog, ReadResult("readUint64", d))
  /\ UNCHANGED << phase, ser, wlog >>

\* des.readDouble() (1033-1035)
ReadDoubleCall ==
  /\ CanRead
  /\ LET d == ReadDouble(des)
     IN  /\ des' = d
         /\ rlog' = Append(rlog, ReadResult("readDouble", d))
  /\ UNCHANGED << phase, ser, wlog >>

\* des.readRawBytes(length) (1043-1045)
ReadRawBytesCall(length) ==
  /\ CanRead
  /\ LET d == ReadRawBytes(des, length)
     IN  /\ des' = d
         /\ rlog' = Append(rlog, ReadResult("readRawBytes", d))
  /\ UNCHANGED << phase, ser, wlog >>

Next ==
  \/ \E t \in 1..MaxTransferId, a \in TransferBuffers : SerializerTransfer(t, a)
  \/ WriteHeaderCall
  \/ \E value \in Palette(ser.cls) : WriteValue(value)
  \/ \E byteOffset \in 0..MaxByteOffset : ReleaseBuffer(byteOffset)
  \/ \E input \in RawStreams, byteOffset \in 0..MaxByteOffset :
       RawInput(input, byteOffset)
  \/ \E t \in 1..MaxTransferId, a \in TransferBuffers : DeserializerTransfer(t, a)
  \/ ReadHeaderCall
  \/ ReadValue

Spec == Init /\ [][Next]_vars

NextPrim ==
  \/ WriteHeaderCall
  \/ \E value \in HostPalette : ser.cls = "Hook" /\ WriteValue(value)
  \/ \E value \in Uint32Values : WriteUint32Call(value)
  \/ \E pair \in Uint64Pairs : WriteUint64Call(pair[1], pair[2])
  \/ \E value \in DoubleValues : WriteDoubleCall(value)
  \/ \E buffer \in RawBuffers : WriteRawBytesCall(buffer)
  \/ ReleaseBuffer(0)
  \/ ReadHeaderCall
  \/ ReadValue
  \/ ReadUint32Call
  \/ ReadUint64Call
  \/ ReadDoubleCall
  \/ \E buffer \in RawBuffers : ReadRawBytesCall(Len(buffer))

SpecPrim == InitPrim /\ [][NextPrim]_vars

(***************************************************************************)
(* Structural equality of a value of the caller and a decoded value, as    *)
(* assert.deepStrictEqual decides it, with the identity topology: the      *)
(* objects met while both graphs are walked in step must pair one to one.  *)
(***************************************************************************)
\* the values inside an object, in order
Children(obj) ==
  IF obj.kind = "Object" THEN [ i \in 1..Len(obj.props) |-> obj.props[i][2] ]
  ELSE IF obj.kind = "Array"
    THEN obj.elems \o [ i \in 1..Len(obj.props) |-> obj.props[i][2] ]
  ELSE IF obj.kind = "Map"
    THEN [ i \in 1..(2 * Len(obj.entries)) |->
             obj.entries[(i + 1) \div 2][IF i % 2 = 1 THEN 1 ELSE 2] ]
  ELSE IF obj.kind = "Set" THEN obj.entries
  ELSE << >>

\* the bytes a view shows
BytesOfView(heap, view) ==
  SubSeq(ObjectAt(heap, view.buffer).bytes, view.byteOffset + 1,
         view.byteOffset + view.byteLength)

\* what is compared of an object besides the values inside it; a callable
\* or a handle equals itself only
Shape(heap, a) ==
  LET obj == ObjectAt(heap, a)
  IN  IF obj.kind = "Object"
        THEN << "Object", [ i \in 1..Len(obj.props) |-> obj.props[i][1] ] >>
      ELSE IF obj.kind = "Array"
        THEN << "Array", Len(obj.elems),
                [ i \in 1..Len(obj.props) |-> obj.props[i][1] ] >>
      ELSE IF obj.kind = "Map" THEN << "Map", Len(obj.entries) >>
      ELSE IF obj.kind = "Set" THEN << "Set", Len(obj.entries) >>
      ELSE IF obj.kind = "View"
        THEN << "View", obj.ctor, BytesOfView(heap, obj) >>
      ELSE IF obj.kind \in {"Function", "Host"} THEN << obj.kind, a >>
      ELSE << obj >>

\* object a of the caller and object b of the decoder agree in themselves
LocalEqual(heap, a, b) ==
  LET ca == Children(Heap[a])
      cb == Children(ObjectAt(heap, b))
  IN  /\ Shape(heap, a) = Shape(heap, b)
      /\ Len(ca) = Len(cb)
      /\ \A i \in 1..Len(ca) :
           IF ca[i].t = "ref" THEN cb[i].t = "ref" ELSE ca[i] = cb[i]

\* the pairs of objects inside a and b that must be equal for a and b to be
PairsInside(heap, a, b) ==
  IF ~ LocalEqual(heap, a, b) THEN {}
  ELSE LET ca == Children(Heap[a])
           cb == Children(ObjectAt(heap, b))
       IN  { << ca[i].a, cb[i].a >> : i \in { j \in 1..Len(ca) : ca[j].t = "ref" } }

RECURSIVE PairsReached(_, _, _)
PairsReached(heap, todo, seen) ==
  IF todo = {} THEN seen
  ELSE LET pair == CHOOSE q \in todo : TRUE
       IN  PairsReached(heap,
                        (todo \cup PairsInside(heap, pair[1], pair[2]))
                          \ (seen \cup {pair}),
                        seen \cup {pair})

StructurallyEqual(v, w, heap) ==
  IF v.t = "ref" /\ w.t = "ref"
    THEN LET pairs == PairsReached(heap, { << v.a, w.a >> }, {})
         IN  /\ \A q \in pairs : LocalEqual(heap, q[1], q[2])
             /\ \A q, r \in pairs : (q[1] = r[1]) <=> (q[2] = r[2])
    ELSE v = w

\* the objects a value reaches
RECURSIVE ReachedFrom(_, _)
ReachedFrom(todo, seen) ==
  IF todo = {} THEN seen
  ELSE LET a == CHOOSE q \in todo : TRUE
           inside == { Children(Heap[a])[i].a :
                         i \in { j \in 1..Len(Children(Heap[a])) :
                                   Children(Heap[a])[j].t = "ref" } }
       IN  ReachedFrom((todo \cup inside) \ (seen \cup {a}), seen \cup {a})

Reaches(v) == IF v.t = "ref" THEN ReachedFrom({v.a}, {}) ELSE {}

\* no callable and no host-only object in the value
Cloneable(v) == \A a \in Reaches(v) : Heap[a].kind \notin {"Function", "Host"}

(***************************************************************************)
(* What the logs say.                                                      *)
(***************************************************************************)
\* the decoder reads bytes an encoder of the matching class released
FromEncoder == phase = "read" /\ HeaderWritten

NoTransfer ==
  /\ ser.array_buffer_transfer_map_ = << >>
  /\ des.array_buffer_transfer_map_ = << >>

\* the i-th write and the read that follows the header and i - 1 reads
Wrote(i) == wlog[i]
Read(i) == rlog[i + 1]
HasRead(i) == Len(rlog) >= i + 1

\* the bytes a write added to the output
BytesOf(w) == SubSeq(ser.kBufferList, w.from + 1, w.to)

\* the number a byte sequence spells in little-endian base 128
RECURSIVE Base128(_)
Base128(bytes) ==
  IF bytes = << >> THEN U(0)
  ELSE AddU(U(bytes[1] % 128), Shl7(Base128(Tail(bytes))))

\* every byte but the last has its high bit set
Continued(bytes) ==
  /\ bytes # << >>
  /\ \A k \in 1..Len(bytes) : (bytes[k] >= 128) <=> (k < Len(bytes))

\* 2 * |n| + (1 if n < 0 else 0)
TwiceMagnitudePlusSign(n) ==
  AddU(Shl1(n.mag), IF n.neg /\ ~ IsZeroU(n.mag) THEN U(1) ELSE U(0))

(***************************************************************************)
(* C1: deserialize(serialize(v)) is structurally equal to v for every v    *)
(* without callables and host-only objects, cycles and shared composites   *)
(* included: with a default encoder and decoder and one value written, the *)
(* write succeeds and the first readValue returns, without an error, a     *)
(* value structurally equal to the one written.                            *)
(***************************************************************************)
C1_RoundTrip ==
  ( /\ FromEncoder /\ ser.cls = "Default" /\ NoTransfer
    /\ Len(wlog) = 1 /\ Cloneable(Wrote(1).arg) /\ HasRead(1) )
  => /\ Wrote(1).err = NoErr
     /\ Read(1).err = NoErr
     /\ StructurallyEqual(Wrote(1).arg, Read(1).ret, des.heap)

(***************************************************************************)
(* C2: after writeValue(v1)..writeValue(vn) on one encoder, the i-th       *)
(* readValue of a decoder over the released bytes returns a value          *)
(* structurally equal to vi and consumes exactly the bytes of vi.          *)
(***************************************************************************)
C2_ValuesInOrder ==
  ( /\ FromEncoder /\ ser.cls = "Default" /\ NoTransfer
    /\ \A i \in 1..Len(wlog) : Cloneable(Wrote(i).arg) /\ Wrote(i).err = NoErr )
  => \A i \in 1..Len(wlog) :
       HasRead(i)
         => /\ Read(i).err = NoErr
            /\ StructurallyEqual(Wrote(i).arg, Read(i).ret, des.heap)
            /\ Read(i).from = Wrote(i).from
            /\ Read(i).to = Wrote(i).to

(***************************************************************************)
(* C3: with a byte buffer registered under id t on the encoder before      *)
(* writeValue and a handle h under the same id on the decoder before       *)
(* readValue, writing the buffer writes ByteBufferTransfer t and no raw    *)
(* bytes, and the value read is h itself.                                  *)
(***************************************************************************)
C3_TransferredBuffer ==
  \A a \in TransferBuffers :
    ( /\ FromEncoder /\ Len(wlog) >= 1
      /\ Wrote(1).arg = Ref(a)
      /\ MapHas(ser.array_buffer_transfer_map_, Ref(a)) )
    => /\ Wrote(1).err = NoErr
       /\ BytesOf(Wrote(1))[1] = kArrayBufferTransfer
       /\ Continued(Tail(BytesOf(Wrote(1))))
       /\ Base128(Tail(BytesOf(Wrote(1))))
            = MapGet(ser.array_buffer_transfer_map_, Ref(a)).mag
       /\ \A h \in TransferBuffers :
            ( /\ MapHas(des.array_buffer_transfer_map_, Ref(h))
              /\ MapGet(des.array_buffer_transfer_map_, Ref(h))
                   = MapGet(ser.array_buffer_transfer_map_, Ref(a))
              /\ HasRead(1) )
            => Read(1).err = NoErr /\ Read(1).ret = Ref(h)

(***************************************************************************)
(* C4: an encoder that does not treat typed views as host objects, with    *)
(* nothing registered for transfer, writes for a typed view its byte       *)
(* buffer and then the TypedView tag, and readValue returns a view of the  *)
(* same kind, byte offset and byte length over another allocation.         *)
(***************************************************************************)
C4_TypedView ==
  ( /\ FromEncoder /\ ser.cls = "Node" /\ NoTransfer
    /\ Len(wlog) >= 1
    /\ Wrote(1).arg.t = "ref" /\ Heap[Wrote(1).arg.a].kind = "View" )
  => LET view == Heap[Wrote(1).arg.a]
         bytes == BytesOf(Wrote(1))
         n == Len(Heap[view.buffer].bytes)
     IN  /\ Wrote(1).err = NoErr
         /\ Len(bytes) > n + 2
         /\ bytes[1] = kArrayBuffer
         /\ SubSeq(bytes, 3, n + 2) = Heap[view.buffer].bytes
         /\ bytes[n + 3] = kArrayBufferView
         /\ HasRead(1)
              => /\ Read(1).err = NoErr
                 /\ Read(1).ret.t = "ref"
                 /\ LET read == ObjectAt(des.heap, Read(1).ret.a)
                    IN  /\ read.kind = "View"
                        /\ read.ctor = view.ctor
                        /\ read.byteOffset = view.byteOffset
                        /\ read.byteLength = view.byteLength
                        /\ read.buffer # view.buffer

(***************************************************************************)
(* C5: readHeader on a stream whose first tag after any padding is Version *)
(* consumes the tag and the varint after it, records the varint as the     *)
(* version and fails when it is greater than 13; on a stream whose first   *)
(* tag is not Version it leaves the cursor at 0 and the version at 0; on   *)
(* an encoder-produced stream getWireFormatVersion returns 13 afterwards.  *)
(***************************************************************************)
C5_ReadHeader ==
  (phase = "read" /\ Len(rlog) >= 1)
  => LET input == des.buffer_
         pads == CHOOSE k \in 0..Len(input) :
                   /\ \A j \in 1..k : input[j] = kPadding
                   /\ k < Len(input) => input[k + 1] # kPadding
         after == SubSeq(input, pads + 2, Len(input))
         len == IF \A k \in 1..Len(after) : after[k] >= 128 THEN 0
                ELSE CHOOSE k \in 1..Len(after) :
                       /\ after[k] < 128
                       /\ \A j \in 1..(k - 1) : after[j] >= 128
         version == Base128(SubSeq(after, 1, len))
     IN  /\ (pads < Len(input) /\ input[pads + 1] = kVersion /\ len > 0)
              => IF LessU(U(kLatestVersion), version)
                   THEN rlog[1].err.kind = "Error"
                   ELSE /\ rlog[1].err = NoErr
                        /\ rlog[1].to = pads + 1 + len
                        /\ GetWireFormatVersion(des) = Num(FALSE, version)
         /\ (pads < Len(input) /\ input[pads + 1] # kVersion)
              => /\ rlog[1].err = NoErr
                 /\ rlog[1].to = 0
                 /\ GetWireFormatVersion(des) = I(0)
         /\ FromEncoder => GetWireFormatVersion(des) = I(13)

(***************************************************************************)
(* C6: writeValue of a callable, bare or inside a record, fails with the   *)
(* message "<stringified value> could not be cloned", and so does          *)
(* writeValue of an object the base host-object delegate rejects; an error *)
(* thrown by a _writeHostObject hook leaves writeValue as an error.        *)
(***************************************************************************)
C6_CloneError ==
  \A i \in 1..Len(wlog) :
    Wrote(i).op = "writeValue"
      => /\ \A a \in Reaches(Wrote(i).arg) :
              ( \/ Heap[a].kind = "Function"
                \/ Heap[a].kind = "Host" /\ ser.cls = "Node" )
              => Wrote(i).err =
                   Err("Error", StringOf(Heap[a]) \o " could not be cloned")
         /\ ( /\ ser.cls = "Throw"
              /\ \E a \in Reaches(Wrote(i).arg) : Heap[a].kind = "Host"
              /\ \A a \in Reaches(Wrote(i).arg) : Heap[a].kind # "Function" )
              => Wrote(i).err # NoErr

(***************************************************************************)
(* C7: with the default encoder, writeValue of an object that is neither a *)
(* core kind nor a supported typed view fails; _getDataCloneError is       *)
(* called exactly once, with "Unknown host object type: <class-tag>", and  *)
(* the error it returns is the error writeValue throws.                    *)
(***************************************************************************)
C7_UnknownHostObject ==
  \A i \in 1..Len(wlog) :
    ( /\ Wrote(i).op = "writeValue"
      /\ ser.cls \in {"Default", "CustomErr"}
      /\ Wrote(i).arg.t = "ref" /\ Heap[Wrote(i).arg.a].kind = "Host" )
    => LET message == "Unknown host object type: "
                        \o ClassTag(Heap[Wrote(i).arg.a])
       IN  /\ Wrote(i).cloneErrorCalls = << message >>
           /\ Wrote(i).err # NoErr
           /\ Wrote(i).err = GetDataCloneError(ser, message)

(***************************************************************************)
(* C8: the bytes of writeUint64(hi, lo) are read back by readUint64 as     *)
(* [hi, lo] with the cursor right after them, a double written by          *)
(* writeDouble is read back by readDouble, and the handle whose hook       *)
(* writes "stdin", five pairs and -0.25 is read back by the hook that      *)
(* reads and compares them.                                                *)
(***************************************************************************)
C8_Uint64RoundTrip ==
  FromEncoder
  => /\ \A i \in 1..Len(wlog) : \A j \in 2..Len(rlog) :
          ( /\ Wrote(i).op = "writeUint64"
            /\ rlog[j].op = "readUint64"
            /\ rlog[j].from = Wrote(i).from )
          => /\ Wrote(i).err = NoErr
             /\ rlog[j].err = NoErr
             /\ rlog[j].pair = Wrote(i).arg
             /\ rlog[j].to = Wrote(i).to
     /\ \A i \in 1..Len(wlog) : \A j \in 2..Len(rlog) :
          ( /\ Wrote(i).op = "writeDouble"
            /\ rlog[j].op = "readDouble"
            /\ rlog[j].from = Wrote(i).from )
          => /\ rlog[j].err = NoErr
             /\ rlog[j].ret = Wrote(i).arg
             /\ rlog[j].to = Wrote(i).to
     /\ ( /\ ser.cls = "Hook" /\ Len(wlog) >= 1
          /\ Wrote(1).op = "writeValue" /\ HasRead(1)
          /\ Read(1).op = "readValue" )
          => /\ Wrote(1).err = NoErr
             /\ Wrote(1).hostObjectCalls = 1
             /\ Read(1).err = NoErr
             /\ StructurallyEqual(Wrote(1).arg, Read(1).ret, des.heap)
             /\ Read(1).to = Wrote(1).to

\* a pair with the top bit of hi set was written and read back, after a
\* value whose hook wrote the five pairs of the test was read back
C8_Witness ==
  /\ FromEncoder /\ ser.cls = "Hook"
  /\ Len(wlog) = 2 /\ Len(rlog) = 3
  /\ Wrote(1).op = "writeValue" /\ Read(1).op = "readValue"
  /\ Read(1).err = NoErr
  /\ Wrote(2).op = "writeUint64"
  /\ Wrote(2).arg = << Num(FALSE, U32(32768, 0)), Num(FALSE, U32(28672, 0)) >>
  /\ Read(2).op = "readUint64"
  /\ Read(2).pair = Wrote(2).arg
  /\ Read(2).to = Wrote(2).to
  /\ Wrote(2).to = Wrote(2).from + 10

(***************************************************************************)
(* C9: for every x written as a varint, ReadVarint over the bytes of       *)
(* WriteVarint(x) returns x and moves the cursor past exactly those bytes; *)
(* the bytes are little-endian base 128 with the high bit set on every     *)
(* byte but the last, and 0 is the single byte 0.                          *)
(***************************************************************************)
C9_VarintRoundTrip ==
  FromEncoder
  => \A i \in 1..Len(wlog) :
       Wrote(i).op = "writeUint32"
         => /\ Wrote(i).err = NoErr
            /\ Continued(BytesOf(Wrote(i)))
            /\ Base128(BytesOf(Wrote(i))) = Wrote(i).arg.mag
            /\ Wrote(i).arg = I(0) => BytesOf(Wrote(i)) = << 0 >>
            /\ \A j \in 2..Len(rlog) :
                 (rlog[j].op = "readUint32" /\ rlog[j].from = Wrote(i).from)
                   => /\ rlog[j].err = NoErr
                      /\ rlog[j].ret = Wrote(i).arg
                      /\ rlog[j].to = Wrote(i).to

(***************************************************************************)
(* C10: an integer n of the signed 32-bit range is written as Int32 with   *)
(* the ZigZag value 2 * |n| + (1 if n < 0 else 0) and decodes to n; an     *)
(* integer outside the range is written as Double and decodes to the same  *)
(* number.                                                                 *)
(***************************************************************************)
C10_Int32ZigZag ==
  ( /\ FromEncoder /\ ser.cls = "Default" /\ Len(wlog) >= 1
    /\ Wrote(1).arg.t = "num" )
  => LET n == Wrote(1).arg
         bytes == BytesOf(Wrote(1))
     IN  /\ Wrote(1).err = NoErr
         /\ IF IsInt32(n)
              THEN /\ bytes[1] = kInt32
                   /\ Continued(Tail(bytes))
                   /\ Base128(Tail(bytes)) = TwiceMagnitudePlusSign(n)
              ELSE /\ bytes[1] = kDouble
                   /\ Tail(bytes) = Float64Bytes(n)
         /\ HasRead(1)
              => /\ Read(1).err = NoErr
                 /\ Read(1).ret = n
                 /\ Read(1).to = Wrote(1).to

(***************************************************************************)
(* C11: serialize({foo: "bar"}) returns exactly the 15 bytes               *)
(* ff 0d 6f 22 03 66 6f 6f 22 03 62 61 72 7b 01, and deserialize of those  *)
(* bytes yields a record whose only entry is foo = "bar".                  *)
(***************************************************************************)
FooBarBytes ==
  << 255, 13, 111, 34, 3, 102, 111, 111, 34, 3, 98, 97, 114, 123, 1 >>

\* serialize(value): a default encoder, the header and one value
Serialized(value) ==
  /\ ser.cls = "Default" /\ NoTransfer
  /\ Len(wlog) = 1 /\ Wrote(1).op = "writeValue" /\ Wrote(1).arg = value

C11_FooBarBytes ==
  Serialized(Ref(1))
  => /\ Wrote(1).err = NoErr
     /\ ser.kBufferList = FooBarBytes
     /\ (FromEncoder /\ HasRead(1))
          => /\ des.buffer_ = FooBarBytes
             /\ Read(1).err = NoErr
             /\ Read(1).ret.t = "ref"
             /\ ObjectAt(des.heap, Read(1).ret.a) =
                  Obj(<< << sFoo, Str(sBar) >> >>)

\* the record was serialized and the 15 bytes were deserialized
C11_Witness ==
  /\ Serialized(Ref(1)) /\ FromEncoder /\ HasRead(1)
  /\ Len(des.buffer_) = 15
  /\ Read(1).op = "readValue" /\ Read(1).to = 15
  /\ Read(1).ret.t = "ref" /\ Read(1).ret.a > DecBase

(***************************************************************************)
(* C12: the default decoder, reading a typed-view host object (constructor *)
(* index, byte length, raw bytes) whose raw bytes start at an offset of    *)
(* the input's storage that is not a multiple of the element size, copies  *)
(* the bytes into a fresh aligned buffer and returns a view with the same  *)
(* elements; when the offset is a multiple of the element size it returns  *)
(* a view directly over the input's storage, without copying.              *)
(***************************************************************************)
\* the first value of the stream is a host object with a one-byte
\* constructor index and byte length and all of its raw bytes
ViewHostObjectAt(p) ==
  LET b == des.buffer_
  IN  /\ Len(b) >= p + 3
      /\ b[p + 1] = kHostObject
      /\ b[p + 2] < Len(ArrayBufferViewTypes)
      /\ b[p + 3] < 128
      /\ Len(b) >= p + 3 + b[p + 3]
      /\ b[p + 3] % (IF BYTES_PER_ELEMENT[ArrayBufferViewTypes[b[p + 2] + 1]] = 0
                       THEN 1
                       ELSE BYTES_PER_ELEMENT[ArrayBufferViewTypes[b[p + 2] + 1]])
           = 0

C12_AlignedReached ==
  /\ phase = "read" /\ des.cls = "Default" /\ HasRead(1)
  /\ des.byteOffset = 1
  /\ des.buffer_ = << 255, 13, 92, 4, 4, 173, 222, 239, 190 >>
  /\ Read(1).err = NoErr /\ Read(1).ret.t = "ref"
  /\ ObjectAt(des.heap, Read(1).ret.a).buffer = StorageAddr
  /\ ObjectAt(des.heap, Read(1).ret.a).byteOffset = 6

(***************************************************************************)
(* C13: an array of length 4 with no index set round-trips through         *)
(* serialize and deserialize to an array of length 4 with zero own         *)
(* properties; a decoded array has the length of the encoded array and the *)
(* same set of missing indices.                                            *)
(***************************************************************************)
MissingIndices(array) ==
  { i \in 1..Len(array.elems) : array.elems[i] = Hole }

C13_ArrayLength ==
  \A a \in Addrs :
    ( /\ Heap[a].kind = "Array"
      /\ Serialized(Ref(a)) /\ FromEncoder /\ HasRead(1) )
    => /\ Wrote(1).err = NoErr
       /\ Read(1).err = NoErr
       /\ Read(1).ret.t = "ref"
       /\ ObjectAt(des.heap, Read(1).ret.a).kind = "Array"
       /\ Len(ObjectAt(des.heap, Read(1).ret.a).elems) = Len(Heap[a].elems)
       /\ MissingIndices(ObjectAt(des.heap, Read(1).ret.a))
            = MissingIndices(Heap[a])
       /\ ObjectAt(des.heap, Read(1).ret.a).props = Heap[a].props

(***************************************************************************)
(* C14: the k-th composite the encoder registers is the composite the      *)
(* decoder registers under id k when it reads the stream, so that every    *)
(* ObjectReference carries the id under which the decoder registered the   *)
(* referenced composite, also for a typed view and its byte buffer on the  *)
(* core TypedView path; and re-encoding the value decoded from             *)
(* ff 0d 6f 22 03 66 6f 6f 5e 00 7b 01 yields the same bytes.              *)
(***************************************************************************)
SelfReferenceBytes == << 255, 13, 111, 34, 3, 102, 111, 111, 94, 0, 123, 1 >>

\* the k-th composite of the encoder and the object of id k of the decoder
\* are of one kind
SameComposite(a, k) ==
  /\ MapHas(des.id_map_, I(k))
  /\ MapGet(des.id_map_, I(k)).t = "ref"
  /\ ObjectAt(des.heap, MapGet(des.id_map_, I(k)).a).kind = Heap[a].kind

C14_IdCorrespondence ==
  /\ ( /\ FromEncoder /\ ser.cls \in {"Default", "Node"} /\ NoTransfer
       /\ \A i \in 1..Len(wlog) : Cloneable(Wrote(i).arg) )
     => /\ \A i \in 1..Len(wlog) : Wrote(i).err = NoErr
        /\ Len(rlog) = Len(wlog) + 1
             => \A e \in 1..Len(ser.id_map_) :
                  SameComposite(ser.id_map_[e][1].a, ser.id_map_[e][2] - 1)
  /\ (phase = "read" /\ des.buffer_ = SelfReferenceBytes /\ HasRead(1))
       => /\ Read(1).err = NoErr
          /\ StructurallyEqual(Ref(22), Read(1).ret, des.heap)
  /\ Serialized(Ref(22)) => ser.kBufferList = SelfReferenceBytes

(***************************************************************************)
(* C15: for a record, a dense array, a sparse array, a map and a set the   *)
(* decoder assigns the id and puts the new object into the id map before   *)
(* it reads the contents, so an ObjectReference to the enclosing composite *)
(* inside its contents resolves to that composite, and the composite is    *)
(* still in the id map when its read completes.                            *)
(***************************************************************************)
SparseSelfBytes == << 255, 13, 97, 1, 73, 0, 94, 0, 64, 1, 1 >>

\* the caller's composites that hold themselves: two records, a dense
\* array, a map, a set
SelfContaining ==
  { a \in Addrs :
      \E i \in 1..Len(Children(Heap[a])) : Children(Heap[a])[i] = Ref(a) }

C15_RegisterBeforeRecurse ==
  /\ \A a \in SelfContaining :
       (Serialized(Ref(a)) /\ FromEncoder /\ HasRead(1))
         => /\ Read(1).err = NoErr
            /\ StructurallyEqual(Ref(a), Read(1).ret, des.heap)
            /\ MapHas(des.id_map_, I(0))
            /\ MapGet(des.id_map_, I(0)) = Read(1).ret
  /\ (phase = "read" /\ des.buffer_ = SparseSelfBytes /\ HasRead(1))
       => /\ Read(1).err = NoErr
          /\ Read(1).ret.t = "ref"
          /\ ObjectAt(des.heap, Read(1).ret.a).kind = "Array"
          /\ ObjectAt(des.heap, Read(1).ret.a).elems = << Read(1).ret >>
          /\ MapHas(des.id_map_, I(0))
          /\ MapGet(des.id_map_, I(0)) = Read(1).ret

(***************************************************************************)
(* C16: in the output of a sequence of writeValue calls on one encoder the *)
(* body of a composite is written at most once: the first occurrence       *)
(* writes the body, every later occurrence, in the same call or in a later *)
(* call, writes only an ObjectReference with the id of the first one.      *)
(***************************************************************************)
\* the identity map of the encoder when the i-th call started
RegisteredBefore(i) == IF i = 1 THEN << >> ELSE Wrote(i - 1).registered

\* the bytes of {foo: "bar"} after the header
FooBarBody == SubSeq(FooBarBytes, 3, Len(FooBarBytes))

C16_WrittenOnce ==
  \A i \in 1..Len(wlog) :
    (Wrote(i).op = "writeValue" /\ Wrote(i).arg.t = "ref")
    => LET a == Wrote(i).arg.a
           before == RegisteredBefore(i)
           after == Wrote(i).registered
       IN  /\ MapHas(before, Ref(a))
                => /\ Wrote(i).err = NoErr
                   /\ BytesOf(Wrote(i))
                        = << kObjectReference, MapGet(before, Ref(a)) - 1 >>
                   /\ after = before
           /\ \A e \in 1..Len(before) : after[e] = before[e]
           /\ \A e \in 1..Len(after) : after[e][2] = e
           /\ (a = 19 /\ ser.cls = "Default" /\ ~ MapHas(before, Ref(19)))
                => /\ Wrote(i).err = NoErr
                   /\ BytesOf(Wrote(i)) =
                        << kBeginJSObject, kOneByteString, 1, 97 >>
                          \o (IF MapHas(before, Ref(1))
                                THEN << kObjectReference,
                                        MapGet(before, Ref(1)) - 1 >>
                                ELSE FooBarBody)
                          \o << kOneByteString, 1, 98,
                                kObjectReference, MapGet(after, Ref(1)) - 1,
                                kEndJSObject, 2 >>

\* {foo: "bar"} was written twice by one encoder, and then a second time
\* the bytes are ObjectReference 0
C16_Witness ==
  /\ Len(wlog) = 2
  /\ Wrote(1).op = "writeValue" /\ Wrote(1).arg = Ref(1)
  /\ Wrote(2).op = "writeValue" /\ Wrote(2).arg = Ref(1)
  /\ BytesOf(Wrote(1)) = FooBarBody
  /\ BytesOf(Wrote(2)) = << kObjectReference, 0 >>

\* a record holding {foo: "bar"} twice was written in one call
C16_SameCallReached ==
  /\ Len(wlog) = 1 /\ Wrote(1).arg = Ref(19) /\ Wrote(1).err = NoErr
  /\ Len(BytesOf(Wrote(1))) = 4 + Len(FooBarBody) + 7

(***************************************************************************)
(* C17: a string with a code unit that does not fit in one byte is written *)
(* as TwoByteString with its UTF-16LE payload at an even offset of the     *)
(* output: one Padding byte goes before the tag exactly when the offset    *)
(* after the tag and the varint length would otherwise be odd.             *)
(***************************************************************************)
WideString(v) == v.t = "str" /\ \E k \in 1..Len(v.s) : v.s[k] > 255

\* the bytes the claim gives for a wide string written at an offset
TwoByteStringAt(offset, chars) ==
  LET length == << 2 * Len(chars) >>
      padding == IF (offset + 1 + Len(length)) % 2 = 1
                   THEN << kPadding >> ELSE << >>
  IN  padding \o << kTwoByteString >> \o length \o Utf16leBytes(chars)

C17_TwoByteAligned ==
  \A i \in 1..Len(wlog) :
    (Wrote(i).op = "writeValue" /\ WideString(Wrote(i).arg))
    => /\ Wrote(i).err = NoErr
       /\ BytesOf(Wrote(i)) = TwoByteStringAt(Wrote(i).from, Wrote(i).arg.s)

(***************************************************************************)
(* C18: every decoder read (readValue, readUint32, readUint64, readDouble, *)
(* readRawBytes) on a stream that ends before the bytes the read needs     *)
(* fails with "Unable to deserialize cloned data." and returns nothing     *)
(* built from bytes past the end of the input.                             *)
(***************************************************************************)
\* the i-th read wanted bytes at or after the end of the input
ReadPastEnd(i) ==
  \/ Read(i).to > End(des)
  \/ Read(i).op = "readDouble" /\ Read(i).from + 8 > End(des)
  \/ Read(i).op \in {"readValue", "readUint32", "readUint64"}
       /\ Read(i).from >= End(des)

C18_TruncatedReadFails ==
  \A i \in 1..ValuesRead :
    ReadPastEnd(i)
    => Read(i).err = Err("Error", kDataCloneDeserializationError)

(***************************************************************************)
(* C19: for a dense array the encoder writes each index 0..length-1 once,  *)
(* as a positional element (TheHole for a missing index), then only the    *)
(* non-index own properties as key/value pairs, then the end tag, the      *)
(* number of pairs written and the length again; an index property is not  *)
(* written again as a pair and is not counted.                             *)
(***************************************************************************)
\* arrays whose elements and property values are small non-negative integers
SmallInt(v) == v.t = "num" /\ ~ v.neg /\ \E n \in 0..63 : v = I(n)

PlainArray(a) ==
  /\ Heap[a].kind = "Array"
  /\ \A k \in 1..Len(Heap[a].elems) :
       Heap[a].elems[k] = Hole \/ SmallInt(Heap[a].elems[k])
  /\ \A k \in 1..Len(Heap[a].props) : SmallInt(Heap[a].props[k][2])

\* Int32 tag and the one-byte zigzag varint of a small integer
SmallIntBytes(v) == << kInt32, 2 * v.mag[1] >>

RECURSIVE PositionalBytes(_)
PositionalBytes(elems) ==
  IF elems = << >> THEN << >>
  ELSE (IF Head(elems) = Hole THEN << kTheHole >>
        ELSE SmallIntBytes(Head(elems)))
       \o PositionalBytes(Tail(elems))

RECURSIVE NamedPairBytes(_)
NamedPairBytes(props) ==
  IF props = << >> THEN << >>
  ELSE << kOneByteString, Len(Head(props)[1]) >> \o Head(props)[1]
       \o SmallIntBytes(Head(props)[2]) \o NamedPairBytes(Tail(props))

\* the bytes the claim gives for a dense array
DenseArrayBytes(array) ==
  << kBeginDenseJSArray, Len(array.elems) >>
    \o PositionalBytes(array.elems)
    \o NamedPairBytes(array.props)
    \o << kEndDenseJSArray, Len(array.props), Len(array.elems) >>

C19_DenseArrayLayout ==
  \A i \in 1..Len(wlog) :
    (/\ Wrote(i).op = "writeValue" /\ Wrote(i).arg.t = "ref"
     /\ PlainArray(Wrote(i).arg.a)
     /\ ~ MapHas(RegisteredBefore(i), Wrote(i).arg))
    => /\ Wrote(i).err = NoErr
       /\ BytesOf(Wrote(i)) = DenseArrayBytes(Heap[Wrote(i).arg.a])

(***************************************************************************)
(* C20: after writeValue(f) has failed with a clone error for a callable   *)
(* f, every later writeValue(f) on the same encoder fails with a clone     *)
(* error again: a rejected value is never left in the identity map and is  *)
(* never answered with an ObjectReference.                                 *)
(***************************************************************************)
\* the error of ThrowDataCloneError for the object at an address
CloneErrorFor(a) ==
  Err("Error", ReplaceObject(kDataCloneError, StringOf(Heap[a])))

RejectedCallable(i) ==
  /\ Wrote(i).op = "writeValue" /\ Wrote(i).arg.t = "ref"
  /\ Heap[Wrote(i).arg.a].kind = "Function"
  /\ Wrote(i).err = CloneErrorFor(Wrote(i).arg.a)

C20_RejectedStaysRejected ==
  \A i \in 1..Len(wlog) :
    RejectedCallable(i)
    => /\ ~ MapHas(Wrote(i).registered, Wrote(i).arg)
       /\ \A j \in (i + 1)..Len(wlog) :
            (Wrote(j).op = "writeValue" /\ Wrote(j).arg = Wrote(i).arg)
            => /\ Wrote(j).err = CloneErrorFor(Wrote(i).arg.a)
               /\ Wrote(j).to = Wrote(j).from

=============================================================================
